---- MODULE Spec2Model ----
(***************************************************************************)
(* Model of the RFC 6455 frame decoder of libvncserver                     *)
(* (src/libvncserver/ws_decode.c) and of the session glue in               *)
(* src/libvncserver/websockets.c.                                          *)
(*                                                                         *)
(* Pointers into codeBufDecode are modelled as byte offsets (NULL == -1);  *)
(* the buffer itself is a tuple of bytes, offset o being element o + 1.    *)
(* errno values and decoder states are modelled as strings.                *)
(***************************************************************************)
EXTENDS Integers, Sequences, FiniteSets, TLC

VARIABLES
  dec,      \* ws_decoding_ctx_t of the session (wsctx->dec)
  errno,    \* the thread's errno
  stream,   \* bytes the client has sent and the lower read has not yet returned
  closed,   \* a lower read has reported the end of the stream
  sent,     \* history: the frames the client has sent, in order
  wire,     \* history: every byte the client has sent
  out,      \* history: every byte copied to the caller's dst so far
  call,     \* history: what the last _webSocketsDecode call did
  fails,    \* history: number of lower reads that have failed
  decB,     \* SpecPair: a second decoder reading the same bytes in whole chunks
  streamB,  \* SpecPair: the bytes sent that decB's lower reads have not returned
  outB,     \* SpecPair: every byte decB has delivered
  retB,     \* SpecPair: the result of decB's last call
  cl        \* the client record (rfbClientPtr): session, TLS, bytes written

vars ==
  <<dec, errno, stream, closed, sent, wire, out, call, fails,
    decB, streamB, outB, retB, cl>>

-----------------------------------------------------------------------------
(* Bounds of the model *)

\* number of lower reads of one run that fail (would block, I/O error)
MaxFails == 1
\* size of codeBufDecode in the model (the real array is larger; all that
\* matters to the decoder is that it holds WSHLENMAX bytes and then some)
BufSize == 20

-----------------------------------------------------------------------------
(* Constants of the program *)

WS_OPCODE_CONTINUATION == 0
WS_OPCODE_TEXT_FRAME == 1
WS_OPCODE_BINARY_FRAME == 2
WS_OPCODE_CLOSE == 8
WS_OPCODE_PING == 9
WS_OPCODE_PONG == 10
WS_OPCODE_INVALID == 255

WSHLENMAX == 14
WS_HYBI_HEADER_LEN_SHORT_MASKED == 6
WS_HYBI_HEADER_LEN_EXTENDED_MASKED == 8
WS_HYBI_HEADER_LEN_LONG_MASKED == 14

\* ARRAYSIZE(dec_ctx->carryBuf)
CarryBufSize == 3

NULL == -1

WS_STATE_DECODING_HEADER_PENDING == "HEADER_PENDING"
WS_STATE_DECODING_DATA_AVAILABLE == "DATA_AVAILABLE"
WS_STATE_DECODING_DATA_NEEDED == "DATA_NEEDED"
WS_STATE_DECODING_FRAME_COMPLETE == "FRAME_COMPLETE"
WS_STATE_DECODING_CLOSE_REASON_PENDING == "CLOSE_REASON_PENDING"
WS_STATE_ERR == "ERR"

\* A payload length too large to be told apart from any other such length
\* by the decoder within the bounds of the model: 64-bit lengths of 2^24 and
\* more saturate to it (TLC's integers are 32 bits wide).
HugeLen == 1073741824

-----------------------------------------------------------------------------
(* Byte arithmetic *)

Min(a, b) == IF a < b THEN a ELSE b

RECURSIVE XorN(_, _, _)
XorN(a, b, n) ==
  IF n = 0 THEN 0
  ELSE (((a % 2) + (b % 2)) % 2) + 2 * XorN(a \div 2, b \div 2, n - 1)

\* a ^ b on unsigned char
Xor8(a, b) == XorN(a, b, 8)

\* bytes off .. off+n-1 of a buffer
Slice(buf, off, n) == [i \in 1..n |-> buf[off + i]]

\* memcpy(buf + off, bytes, Len(bytes)); a store outside the array is dropped
Store(buf, off, bytes) ==
  [i \in 1..Len(buf) |->
     IF i - 1 >= off /\ i - 1 < off + Len(bytes) THEN bytes[i - off] ELSE buf[i]]

\* WS_NTOH16 of the two bytes at offset off
WS_NTOH16(buf, off) == buf[off + 1] * 256 + buf[off + 2]

\* WS_NTOH64 of the eight bytes at offset off (saturating, see HugeLen)
WS_NTOH64(buf, off) ==
  IF \E i \in 1..5 : buf[off + i] # 0 THEN HugeLen
  ELSE buf[off + 6] * 65536 + buf[off + 7] * 256 + buf[off + 8]

-----------------------------------------------------------------------------
(* ws_decode.c: cleanup *)

wsHeaderCleanup(header) ==
  [header EXCEPT !.opcode = WS_OPCODE_INVALID,
                 !.payloadLen = 0,
                 !.mask = <<0, 0, 0, 0>>,
                 !.headerLen = 0,
                 !.data = NULL,
                 !.nDone = 0]

isControlFrame(head) == (head.opcode \div 8) % 2 # 0

\* payloadLen - nReadPayload before its reduction modulo 2^64: the uint64_t
\* the code computes is this value when it is >= 0 and this value + 2^64
\* when it is negative.
remaining(wsctx) == wsctx.header.payloadLen - wsctx.nReadPayload

\* remaining(wsctx) == 0 on uint64_t
RemainingIsZero(wsctx) == remaining(wsctx) = 0

\* remaining(wsctx) > bufsize, the int converted to uint64_t
RemainingGt(wsctx, bufsize) ==
  IF (remaining(wsctx) >= 0) = (bufsize >= 0)
  THEN remaining(wsctx) > bufsize
  ELSE remaining(wsctx) < 0

wsDecodeCleanupBasics(wsctx) ==
  [wsctx EXCEPT !.header = wsHeaderCleanup(wsctx.header),
                !.nReadPayload = 0,
                !.carrylen = 0,
                !.readPos = 0,
                !.readlen = 0,
                !.state = WS_STATE_DECODING_HEADER_PENDING,
                !.writePos = NULL]

\* wsDecodeCleanupForContinuation, but the remembered opcode is forgotten
wsDecodeCleanupForContinuation_forget(wsctx) ==
  [wsDecodeCleanupBasics(wsctx) EXCEPT !.continuation_opcode = WS_OPCODE_INVALID]

wsDecodeCleanupForContinuation(wsctx) == wsDecodeCleanupBasics(wsctx)

\* wsDecodeCleanupComplete, but the remembered opcode is kept
wsDecodeCleanupComplete_keepOpcode(wsctx) == wsDecodeCleanupBasics(wsctx)

wsDecodeCleanupComplete(wsctx) ==
  [wsDecodeCleanupBasics(wsctx) EXCEPT !.continuation_opcode = WS_OPCODE_INVALID]

\* calloc(1, sizeof(ws_ctx_t)) followed by wsDecodeCleanupComplete
NewDecodingCtx ==
  wsDecodeCleanupComplete(
    [codeBufDecode |-> [i \in 1..BufSize |-> 0],
     writePos |-> 0,
     readPos |-> 0,
     readlen |-> 0,
     state |-> WS_STATE_DECODING_HEADER_PENDING,
     carryBuf |-> <<0, 0, 0>>,
     carrylen |-> 0,
     header |-> [opcode |-> 0, fin |-> 0, payloadLen |-> 0,
                 mask |-> <<0, 0, 0, 0>>, headerLen |-> 0, nDone |-> 0,
                 data |-> 0],
     nReadPayload |-> 0,
     continuation_opcode |-> 0])

-----------------------------------------------------------------------------
(* ws_decode.c: returnData *)

\* returnData, but with nothing to return reported as 0 bytes
returnData_zero(len, wsctx, e) ==
  IF wsctx.readlen > 0 THEN
    IF wsctx.readlen > len THEN
      [ctx |-> [wsctx EXCEPT !.readlen = @ - len, !.readPos = @ + len],
       next |-> WS_STATE_DECODING_DATA_AVAILABLE,
       sockRet |-> len,
       errno |-> e,
       dst |-> Slice(wsctx.codeBufDecode, wsctx.readPos, len)]
    ELSE
      [ctx |-> [wsctx EXCEPT !.readlen = 0, !.readPos = NULL],
       next |-> IF RemainingIsZero(wsctx)
                THEN WS_STATE_DECODING_FRAME_COMPLETE
                ELSE WS_STATE_DECODING_DATA_NEEDED,
       sockRet |-> wsctx.readlen,
       errno |-> e,
       dst |-> Slice(wsctx.codeBufDecode, wsctx.readPos, wsctx.readlen)]
  ELSE
    [ctx |-> wsctx,
     next |-> wsctx.state,
     sockRet |-> 0,
     errno |-> e,
     dst |-> <<>>]

\* returnData, but with bytes said to be left when the caller's buffer takes
\* them all
returnData_atLeast(len, wsctx, e) ==
  IF wsctx.readlen > 0 THEN
    IF wsctx.readlen >= len THEN
      [ctx |-> [wsctx EXCEPT !.readlen = @ - len, !.readPos = @ + len],
       next |-> WS_STATE_DECODING_DATA_AVAILABLE,
       sockRet |-> len,
       errno |-> e,
       dst |-> Slice(wsctx.codeBufDecode, wsctx.readPos, len)]
    ELSE
      [ctx |-> [wsctx EXCEPT !.readlen = 0, !.readPos = NULL],
       next |-> IF RemainingIsZero(wsctx)
                THEN WS_STATE_DECODING_FRAME_COMPLETE
                ELSE WS_STATE_DECODING_DATA_NEEDED,
       sockRet |-> wsctx.readlen,
       errno |-> e,
       dst |-> Slice(wsctx.codeBufDecode, wsctx.readPos, wsctx.readlen)]
  ELSE
    [ctx |-> wsctx,
     next |-> wsctx.state,
     sockRet |-> -1,
     errno |-> "EAGAIN",
     dst |-> <<>>]

\* Result: the context, the next state, *nWritten, errno and the bytes
\* copied to dst.
returnData(len, wsctx, e) ==
  IF wsctx.readlen > 0 THEN
    IF wsctx.readlen > len THEN
      [ctx |-> [wsctx EXCEPT !.readlen = @ - len, !.readPos = @ + len],
       next |-> WS_STATE_DECODING_DATA_AVAILABLE,
       sockRet |-> len,
       errno |-> e,
       dst |-> Slice(wsctx.codeBufDecode, wsctx.readPos, len)]
    ELSE
      [ctx |-> [wsctx EXCEPT !.readlen = 0, !.readPos = NULL],
       next |-> IF RemainingIsZero(wsctx)
                THEN WS_STATE_DECODING_FRAME_COMPLETE
                ELSE WS_STATE_DECODING_DATA_NEEDED,
       sockRet |-> wsctx.readlen,
       errno |-> e,
       dst |-> Slice(wsctx.codeBufDecode, wsctx.readPos, wsctx.readlen)]
  ELSE
    [ctx |-> wsctx,
     next |-> wsctx.state,
     sockRet |-> -1,
     errno |-> "EAGAIN",
     dst |-> <<>>]

-----------------------------------------------------------------------------
(* ws_decode.c: readHeader *)

\* The lower read (ctxInfo.readFunc) is modelled by its outcome
\* [ret, data, errno]: ret > 0 bytes in data, 0 at end of stream, or -1 with
\* errno set.
\*
\* Result of readHeader: the context, the next state, *sockRet (-1 where the
\* code leaves the caller's initial value), errno and *nPayload.

\* labels err_cleanup_state / err_cleanup_state_sock_closed
readHeaderErr(wsctx, sockRet, e) ==
  [ctx |-> wsDecodeCleanupComplete(wsctx),
   next |-> WS_STATE_ERR,
   sockRet |-> sockRet,
   errno |-> e,
   nPayload |-> 0]

\* label ret_header_pending
readHeaderPending(wsctx) ==
  [ctx |-> wsctx,
   next |-> WS_STATE_DECODING_HEADER_PENDING,
   sockRet |-> -1,
   errno |-> "EAGAIN",
   nPayload |-> 0]

\* lines 281-292: the header is complete and accepted
readHeaderComplete(wsctx, e) ==
  [ctx |-> [wsctx EXCEPT
              !.writePos = wsctx.header.nDone,
              !.readPos = wsctx.header.headerLen,
              !.nReadPayload = wsctx.header.nDone - wsctx.header.headerLen],
   next |-> WS_STATE_DECODING_DATA_NEEDED,
   sockRet |-> -1,
   errno |-> e,
   nPayload |-> wsctx.header.nDone - wsctx.header.headerLen]

\* readHeaderContinuation, but a continuation frame is taken as it is when
\* no opcode is remembered
readHeaderContinuation_stray(wsctx) ==
  IF isControlFrame(wsctx.header) THEN
    [err |-> wsctx.header.fin = 0, ctx |-> wsctx]
  ELSE IF wsctx.header.opcode = WS_OPCODE_CONTINUATION THEN
    [err |-> FALSE,
     ctx |-> [wsctx EXCEPT !.header.opcode = wsctx.continuation_opcode]]
  ELSE
    [err |-> FALSE,
     ctx |-> [wsctx EXCEPT !.continuation_opcode =
                 IF wsctx.header.fin = 0 THEN wsctx.header.opcode
                 ELSE WS_OPCODE_INVALID]]

\* lines 189-226: a control frame must have FIN set, a continuation frame
\* needs a remembered opcode and takes it, any other data frame sets the
\* remembered opcode. Result: [err, ctx].
readHeaderContinuation(wsctx) ==
  IF isControlFrame(wsctx.header) THEN
    [err |-> wsctx.header.fin = 0, ctx |-> wsctx]
  ELSE IF wsctx.header.opcode = WS_OPCODE_CONTINUATION THEN
    IF wsctx.continuation_opcode = WS_OPCODE_INVALID
    THEN [err |-> TRUE, ctx |-> wsctx]
    ELSE [err |-> FALSE,
          ctx |-> [wsctx EXCEPT !.header.opcode = wsctx.continuation_opcode]]
  ELSE
    [err |-> FALSE,
     ctx |-> [wsctx EXCEPT !.continuation_opcode =
                 IF wsctx.header.fin = 0 THEN wsctx.header.opcode
                 ELSE WS_OPCODE_INVALID]]

\* lines 185-226: opcode and fin from byte 0, then the continuation rules
readHeaderOpcode(wsctx) ==
  readHeaderContinuation(
    [wsctx EXCEPT !.header.data = 0,
                  !.header.opcode = wsctx.codeBufDecode[1] % 16,
                  !.header.fin = wsctx.codeBufDecode[1] \div 128])

\* line 237: the MASK bit of byte 1 is set
readHeaderMasked(wsctx) == wsctx.codeBufDecode[2] \div 128 # 0

\* line 228: the 7-bit length of byte 1
readHeaderLen7(wsctx) ==
  [wsctx EXCEPT !.header.payloadLen = wsctx.codeBufDecode[2] % 128]

\* lines 244-259, after line 228: header length, payload length and mask
\* once enough header bytes are there. Result: [complete, ctx].
readHeaderLength(wsctx) ==
  IF wsctx.header.payloadLen < 126 /\ wsctx.header.nDone >= 6 THEN
    [complete |-> TRUE,
     ctx |-> [wsctx EXCEPT
                !.header.headerLen = WS_HYBI_HEADER_LEN_SHORT_MASKED,
                !.header.mask = Slice(wsctx.codeBufDecode, 2, 4)]]
  ELSE IF wsctx.header.payloadLen = 126 /\ 8 <= wsctx.header.nDone THEN
    [complete |-> TRUE,
     ctx |-> [wsctx EXCEPT
                !.header.headerLen = WS_HYBI_HEADER_LEN_EXTENDED_MASKED,
                !.header.payloadLen = WS_NTOH16(wsctx.codeBufDecode, 2),
                !.header.mask = Slice(wsctx.codeBufDecode, 4, 4)]]
  ELSE IF wsctx.header.payloadLen = 127 /\ 14 <= wsctx.header.nDone THEN
    [complete |-> TRUE,
     ctx |-> [wsctx EXCEPT
                !.header.headerLen = WS_HYBI_HEADER_LEN_LONG_MASKED,
                !.header.payloadLen = WS_NTOH64(wsctx.codeBufDecode, 2),
                !.header.mask = Slice(wsctx.codeBufDecode, 10, 4)]]
  ELSE
    [complete |-> FALSE, ctx |-> wsctx]

\* readHeaderInvalidLength, but any encoding of the length is accepted
readHeaderInvalidLength_any(header) == FALSE

\* lines 272-275: the length is not encoded with the minimum number of bytes
readHeaderInvalidLength(header) ==
  \/ /\ header.headerLen > WS_HYBI_HEADER_LEN_SHORT_MASKED
     /\ header.payloadLen < 126
  \/ /\ header.headerLen > WS_HYBI_HEADER_LEN_EXTENDED_MASKED
     /\ header.payloadLen < 65536

\* lines 244-292, hl being the result of readHeaderLength
readHeaderFinish(hl, e) ==
  IF ~hl.complete THEN readHeaderPending(hl.ctx)
  ELSE IF readHeaderInvalidLength(hl.ctx.header)
  THEN readHeaderErr(hl.ctx, -1, "EPROTO")
  ELSE readHeaderComplete(hl.ctx, e)

\* lines 228-292, op being the result of readHeaderOpcode
readHeaderCheck(op, e) ==
  IF op.err THEN readHeaderErr(op.ctx, -1, "EPROTO")
  ELSE IF ~readHeaderMasked(op.ctx)
  THEN readHeaderErr(readHeaderLen7(op.ctx), -1, "EPROTO")
  ELSE readHeaderFinish(readHeaderLength(readHeaderLen7(op.ctx)), e)

\* lines 178-292: ret > 0 bytes are in the buffer
readHeaderParse(wsctx, e) ==
  IF wsctx.header.nDone < 2 THEN readHeaderPending(wsctx)
  ELSE readHeaderCheck(readHeaderOpcode(wsctx), e)

\* number of bytes readHeader asks the lower read for (line 160)
readHeaderRequest(wsctx) == WSHLENMAX - wsctx.header.nDone

readHeader(wsctx, r, e) ==
  IF r.ret <= 0 THEN
    readHeaderErr(wsctx, IF r.ret = -1 THEN -1 ELSE 0,
                  IF r.ret = -1 THEN r.errno ELSE e)
  ELSE
    readHeaderParse(
      [wsctx EXCEPT !.codeBufDecode = Store(@, wsctx.header.nDone, r.data),
                    !.header.nDone = @ + r.ret],
      e)

-----------------------------------------------------------------------------
(* b64_pton: Base64 decoding of the NUL-terminated text at buf + src into    *)
(* buf + tgt (the decoder calls it with src = tgt, decoding in place).       *)

\* position of a character in the Base64 alphabet, -1 if it is not in it
b64Value(ch) ==
  IF ch >= 65 /\ ch <= 90 THEN ch - 65
  ELSE IF ch >= 97 /\ ch <= 122 THEN ch - 71
  ELSE IF ch >= 48 /\ ch <= 57 THEN ch + 4
  ELSE IF ch = 43 THEN 62
  ELSE IF ch = 47 THEN 63
  ELSE -1

b64IsSpace(ch) == ch = 32 \/ (ch >= 9 /\ ch <= 13)

Pad64 == 61

\* a byte of the buffer; reading past the array yields the terminator
b64At(buf, off) == IF off < Len(buf) THEN buf[off + 1] ELSE 0

RECURSIVE b64SkipSpace(_, _)
\* offset of the first character at or after off that is not white space
b64SkipSpace(buf, off) ==
  IF b64At(buf, off) # 0 /\ b64IsSpace(b64At(buf, off))
  THEN b64SkipSpace(buf, off + 1)
  ELSE off

\* after the first Pad64 was seen at offset src - 1
b64Padding(buf, src, tgt, state, tarindex) ==
  IF state < 2 THEN -1
  ELSE
    LET p == IF state = 2 THEN b64SkipSpace(buf, src) ELSE src
        rest == IF state = 2 THEN p + 1 ELSE src
    IN  IF state = 2 /\ b64At(buf, p) # Pad64 THEN -1
        ELSE IF b64At(buf, b64SkipSpace(buf, rest)) # 0 THEN -1
        ELSE IF b64At(buf, tgt + tarindex) # 0 THEN -1
        ELSE tarindex

RECURSIVE b64Loop(_, _, _, _, _, _)
\* Result: [ret, buf]
b64Loop(buf, src, tgt, state, tarindex, targsize) ==
  LET ch == b64At(buf, src)
      v == b64Value(ch)
      t == tgt + tarindex
  IN  IF ch = 0 THEN
        [ret |-> IF state # 0 THEN -1 ELSE tarindex, buf |-> buf]
      ELSE IF b64IsSpace(ch) THEN
        b64Loop(buf, src + 1, tgt, state, tarindex, targsize)
      ELSE IF ch = Pad64 THEN
        [ret |-> b64Padding(buf, src + 1, tgt, state, tarindex), buf |-> buf]
      ELSE IF v = -1 THEN
        [ret |-> -1, buf |-> buf]
      ELSE IF state = 0 THEN
        IF tarindex >= targsize THEN [ret |-> -1, buf |-> buf]
        ELSE b64Loop(Store(buf, t, <<(v * 4) % 256>>),
                     src + 1, tgt, 1, tarindex, targsize)
      ELSE IF state = 1 THEN
        IF tarindex + 1 >= targsize THEN [ret |-> -1, buf |-> buf]
        ELSE b64Loop(Store(buf, t, <<buf[t + 1] + (v \div 16), (v % 16) * 16>>),
                     src + 1, tgt, 2, tarindex + 1, targsize)
      ELSE IF state = 2 THEN
        IF tarindex + 1 >= targsize THEN [ret |-> -1, buf |-> buf]
        ELSE b64Loop(Store(buf, t, <<buf[t + 1] + (v \div 4), (v % 4) * 64>>),
                     src + 1, tgt, 3, tarindex + 1, targsize)
      ELSE
        IF tarindex >= targsize THEN [ret |-> -1, buf |-> buf]
        ELSE b64Loop(Store(buf, t, <<buf[t + 1] + v>>),
                     src + 1, tgt, 0, tarindex + 1, targsize)

b64_pton(buf, src, tgt, targsize) == b64Loop(buf, src, tgt, 0, 0, targsize)

-----------------------------------------------------------------------------
(* ws_decode.c: readAndDecode *)

\* Result of readAndDecode: the context, the next state, *sockRet, errno and
\* the bytes copied to dst.

wsFrameComplete(wsctx) == RemainingIsZero(wsctx)

payloadStart(wsctx) == wsctx.header.headerLen

\* lines 358-360: carried bytes go back to the write position
readAndDecodeCarryBack(wsctx) ==
  [wsctx EXCEPT
     !.codeBufDecode = Store(@, wsctx.writePos,
                             SubSeq(wsctx.carryBuf, 1, wsctx.carrylen)),
     !.writePos = @ + wsctx.carrylen]

\* readAndDecodeBufsize, but with no byte kept for the '\0' terminator
readAndDecodeBufsize_noTerminator(wsctx) ==
  Len(wsctx.codeBufDecode) - wsctx.writePos

\* line 363, for the context after readAndDecodeCarryBack
readAndDecodeBufsize(wsctx) == Len(wsctx.codeBufDecode) - wsctx.writePos - 1

\* lines 365-369, for the context after readAndDecodeCarryBack: the number
\* of bytes asked of the lower read (the read is made only when it is > 0)
readAndDecodeNextRead(wsctx) ==
  IF RemainingGt(wsctx, readAndDecodeBufsize(wsctx))
  THEN readAndDecodeBufsize(wsctx)
  ELSE remaining(wsctx)

readAndDecodeRequest(wsctx) ==
  readAndDecodeNextRead(readAndDecodeCarryBack(wsctx))

\* lines 414-416: data32[i] ^= mask.u for nWords 32-bit words from data
\* (data is not 4-byte aligned in general; the model is of builds on which
\* the unaligned 32-bit access reads and writes the four bytes at data)
unmaskWords(buf, data, nWords, mask) ==
  [j \in 1..Len(buf) |->
     IF j - 1 >= data /\ j - 1 < data + 4 * nWords
     THEN Xor8(buf[j], mask[((j - 1 - data) % 4) + 1])
     ELSE buf[j]]

\* lines 421-423: data[i] ^= mask.c[i % 4] for from <= i < to
unmaskTail(buf, data, from, to, mask) ==
  [j \in 1..Len(buf) |->
     IF j - 1 >= data + from /\ j - 1 < data + to
     THEN Xor8(buf[j], mask[((j - 1 - data) % 4) + 1])
     ELSE buf[j]]

readAndDecodeErr(wsctx, sockRet, e) ==
  [ctx |-> wsctx, next |-> WS_STATE_ERR, sockRet |-> sockRet, errno |-> e,
   dst |-> <<>>]

\* lines 444-458: a CLOSE frame
readAndDecodeClose(wsctx) ==
  IF wsFrameComplete(wsctx) THEN
    [ctx |-> [wsctx EXCEPT !.codeBufDecode = Store(@, wsctx.writePos, <<0>>)],
     next |-> WS_STATE_DECODING_FRAME_COMPLETE,
     sockRet |-> -1, errno |-> "ECONNRESET", dst |-> <<>>]
  ELSE
    [ctx |-> wsctx,
     next |-> WS_STATE_DECODING_CLOSE_REASON_PENDING,
     sockRet |-> -1, errno |-> "EAGAIN", dst |-> <<>>]

\* lines 460-465, b being the result of b64_pton
readAndDecodeText(wsctx, b) ==
  [wsctx EXCEPT !.codeBufDecode = b.buf,
                !.readlen = b.ret,
                !.writePos = payloadStart(wsctx)]

\* lines 459-475: what becomes of toReturn unmasked bytes at data in a frame
\* that is no CLOSE frame
readAndDecodeData(wsctx, data, toReturn, bufsize) ==
  IF wsctx.header.opcode = WS_OPCODE_TEXT_FRAME THEN
    [readAndDecodeText(
       wsctx,
       b64_pton(Store(wsctx.codeBufDecode, data + toReturn, <<0>>),
                data, data, bufsize))
     EXCEPT !.readPos = data]
  ELSE IF wsctx.header.opcode = WS_OPCODE_BINARY_FRAME THEN
    [wsctx EXCEPT !.readlen = toReturn,
                  !.writePos = payloadStart(wsctx),
                  !.readPos = data]
  ELSE
    [wsctx EXCEPT !.readPos = data]

\* lines 443-477
readAndDecodeOpcode(wsctx, len, data, toReturn, bufsize, e) ==
  IF wsctx.header.opcode = WS_OPCODE_CLOSE
  THEN readAndDecodeClose(wsctx)
  ELSE returnData(len, readAndDecodeData(wsctx, data, toReturn, bufsize), e)

\* readAndDecodeCarry, but the bytes after the last whole word are not
\* copied to carryBuf
readAndDecodeCarry_lost(wsctx, data, toDecode) ==
  [wsctx EXCEPT
     !.carrylen = toDecode % 4,
     !.writePos = @ - (toDecode % 4)]

\* lines 427-439: the frame is incomplete, the bytes after the last whole
\* word are carried over
readAndDecodeCarry(wsctx, data, toDecode) ==
  [wsctx EXCEPT
     !.carrylen = toDecode % 4,
     !.carryBuf = [i \in 1..CarryBufSize |->
                     IF i <= toDecode % 4
                     THEN wsctx.codeBufDecode[data + (toDecode \div 4) * 4 + i]
                     ELSE @[i]],
     !.writePos = @ - (toDecode % 4)]

\* lines 419-426: the frame is complete, the remaining bytes are unmasked
readAndDecodeTail(wsctx, data, toDecode) ==
  [wsctx EXCEPT
     !.codeBufDecode = unmaskTail(@, data, (toDecode \div 4) * 4, toDecode,
                                  wsctx.header.mask),
     !.carrylen = 0]

\* lines 419-477, the whole words at data being unmasked
readAndDecodeRest(wsctx, len, data, toDecode, bufsize, e) ==
  IF wsctx.state = WS_STATE_DECODING_FRAME_COMPLETE THEN
    readAndDecodeOpcode(readAndDecodeTail(wsctx, data, toDecode),
                        len, data, toDecode, bufsize, e)
  ELSE IF toDecode % 4 > CarryBufSize THEN
    readAndDecodeErr([wsctx EXCEPT !.carrylen = toDecode % 4], -1, "EIO")
  ELSE
    readAndDecodeOpcode(readAndDecodeCarry(wsctx, data, toDecode),
                        len, data, toDecode - (toDecode % 4), bufsize, e)

\* lines 398-477: toDecode bytes before writePos are to be unmasked
readAndDecodeUnmask(wsctx, len, toDecode, bufsize, e) ==
  IF toDecode < 0 THEN readAndDecodeErr(wsctx, -1, "EIO")
  ELSE
    readAndDecodeRest(
      [wsctx EXCEPT !.codeBufDecode =
         unmaskWords(@, wsctx.writePos - toDecode, toDecode \div 4,
                     wsctx.header.mask)],
      len, wsctx.writePos - toDecode, toDecode, bufsize, e)

\* lines 394-396
readAndDecodeState(wsctx) ==
  IF RemainingIsZero(wsctx)
  THEN [wsctx EXCEPT !.state = WS_STATE_DECODING_FRAME_COMPLETE]
  ELSE wsctx

\* lines 391-477: n bytes were read (n = 0 when none were asked for)
readAndDecodeGot(wsctx, len, nInBuf, n, bufsize, e) ==
  readAndDecodeUnmask(
    readAndDecodeState([wsctx EXCEPT !.nReadPayload = @ + n, !.writePos = @ + n]),
    len, n + wsctx.carrylen + nInBuf, bufsize, e)

\* lines 363-477, for the context after readAndDecodeCarryBack; r is the
\* outcome of the lower read, used when one is made
readAndDecodeRead(wsctx, len, nInBuf, r, e) ==
  IF readAndDecodeNextRead(wsctx) > 0 /\ r.ret = -1
  THEN readAndDecodeErr(wsctx, -1, r.errno)
  ELSE IF readAndDecodeNextRead(wsctx) > 0 /\ r.ret = 0
  THEN readAndDecodeErr(wsctx, 0, e)
  ELSE
    readAndDecodeGot(
      IF readAndDecodeNextRead(wsctx) > 0
      THEN [wsctx EXCEPT !.codeBufDecode = Store(@, wsctx.writePos, r.data)]
      ELSE wsctx,
      len, nInBuf,
      IF readAndDecodeNextRead(wsctx) > 0 THEN r.ret ELSE 0,
      readAndDecodeBufsize(wsctx), e)

readAndDecode(wsctx, len, nInBuf, r, e) ==
  readAndDecodeRead(readAndDecodeCarryBack(wsctx), len, nInBuf, r, e)

-----------------------------------------------------------------------------
(* ws_decode.c: _webSocketsDecode *)

\* Result of _webSocketsDecode: [ctx, result, errno, dst], and endState, the
\* value of dec_ctx->state at label spor, before the cleanup.

\* webSocketsDecodeCleanup, but a completed frame that does not end a
\* message is not cleaned up
webSocketsDecodeCleanup_finOnly(wsctx) ==
  IF wsctx.state = WS_STATE_DECODING_FRAME_COMPLETE THEN
    IF wsctx.header.fin # 0 /\ ~isControlFrame(wsctx.header)
    THEN wsDecodeCleanupComplete(wsctx)
    ELSE wsctx
  ELSE IF wsctx.state = WS_STATE_ERR THEN wsDecodeCleanupComplete(wsctx)
  ELSE wsctx

\* webSocketsDecodeCleanup, but the state ERR is left as it is
webSocketsDecodeCleanup_keepErr(wsctx) ==
  IF wsctx.state = WS_STATE_DECODING_FRAME_COMPLETE THEN
    IF wsctx.header.fin # 0 /\ ~isControlFrame(wsctx.header)
    THEN wsDecodeCleanupComplete(wsctx)
    ELSE wsDecodeCleanupForContinuation(wsctx)
  ELSE wsctx

\* lines 558-571 (label spor): cleanup after the state was computed
webSocketsDecodeCleanup(wsctx) ==
  IF wsctx.state = WS_STATE_DECODING_FRAME_COMPLETE THEN
    IF wsctx.header.fin # 0 /\ ~isControlFrame(wsctx.header)
    THEN wsDecodeCleanupComplete(wsctx)
    ELSE wsDecodeCleanupForContinuation(wsctx)
  ELSE IF wsctx.state = WS_STATE_ERR THEN wsDecodeCleanupComplete(wsctx)
  ELSE wsctx

\* dec_ctx->state = <d.next>, from label spor to the return
webSocketsDecodeExit(d) ==
  [ctx |-> webSocketsDecodeCleanup([d.ctx EXCEPT !.state = d.next]),
   result |-> d.sockRet,
   errno |-> d.errno,
   dst |-> d.dst,
   endState |-> d.next]

\* lines 530-539, h being the result of readHeader
webSocketsDecodeHeader(h, len, r2) ==
  IF h.next = WS_STATE_ERR \/ h.next = WS_STATE_DECODING_HEADER_PENDING
  THEN webSocketsDecodeExit(
         [ctx |-> h.ctx, next |-> h.next, sockRet |-> h.sockRet,
          errno |-> h.errno, dst |-> <<>>])
  ELSE webSocketsDecodeExit(
         readAndDecode([h.ctx EXCEPT !.state = h.next], len, h.nPayload, r2,
                       h.errno))

webSocketsDecode(wsctx, len, r1, r2, e) ==
  IF wsctx.state = WS_STATE_DECODING_HEADER_PENDING THEN
    webSocketsDecodeHeader(readHeader(wsctx, r1, e), len, r2)
  ELSE IF wsctx.state = WS_STATE_DECODING_DATA_AVAILABLE THEN
    webSocketsDecodeExit(returnData(len, wsctx, e))
  ELSE IF wsctx.state = WS_STATE_DECODING_DATA_NEEDED
          \/ wsctx.state = WS_STATE_DECODING_CLOSE_REASON_PENDING THEN
    webSocketsDecodeExit(readAndDecode(wsctx, len, 0, r2, e))
  ELSE
    webSocketsDecodeExit(
      [ctx |-> wsctx, next |-> WS_STATE_ERR, sockRet |-> -1,
       errno |-> "EIO", dst |-> <<>>])

-----------------------------------------------------------------------------
(* websockets.c: lowerRead, and the client's side of the connection *)

\* Outcomes of one lower read, as the environment chooses them: a positive
\* number of bytes, or one of these.
ReadEOF == 0
ReadEAGAIN == -1
ReadETIMEDOUT == -2
NoRead == -3

\* what read()/rfbssl_read() hands back for a chosen outcome
lowerRead(strm, choice) ==
  IF choice > 0 THEN [ret |-> choice, data |-> SubSeq(strm, 1, choice), errno |-> ""]
  ELSE IF choice = ReadEOF THEN [ret |-> 0, data |-> <<>>, errno |-> ""]
  ELSE IF choice = ReadEAGAIN THEN [ret |-> -1, data |-> <<>>, errno |-> "EAGAIN"]
  ELSE [ret |-> -1, data |-> <<>>, errno |-> "ETIMEDOUT"]

\* the outcomes a read of n > 0 bytes can have: any positive number of the
\* bytes sent so far; end of stream when the peer has closed after all its
\* bytes were read; would-block or an I/O error while the connection is open
\* (mayFail: the run's bound on failing reads is not used up)
ReadChoices(strm, isClosed, mayFail, n) ==
  (1..Min(n, Len(strm)))
    \cup (IF strm = <<>> THEN {ReadEOF} ELSE {})
    \cup (IF ~isClosed /\ mayFail THEN {ReadEAGAIN, ReadETIMEDOUT} ELSE {})

\* what a call remembers of a read's outcome: 1 for any number of bytes
ReadKind(choice) == IF choice > 0 THEN 1 ELSE choice

Failed(choice) == choice = ReadEAGAIN \/ choice = ReadETIMEDOUT

Drop(strm, choice) ==
  IF choice > 0 THEN SubSeq(strm, choice + 1, Len(strm)) ELSE strm

\* number of bytes the header read of a call asks for (0: no header read)
HeaderRequest(wsctx) ==
  IF wsctx.state = WS_STATE_DECODING_HEADER_PENDING
  THEN readHeaderRequest(wsctx) ELSE 0

\* the same for the payload read, h being the result of readHeader
PayloadRequestAfter(h) ==
  IF h.next = WS_STATE_DECODING_DATA_NEEDED
  THEN readAndDecodeRequest([h.ctx EXCEPT !.state = h.next])
  ELSE 0

\* number of bytes the payload read of a call asks for, given the outcome of
\* its header read (0 or less: no payload read)
PayloadRequest(wsctx, r1, e) ==
  IF wsctx.state = WS_STATE_DECODING_HEADER_PENDING
  THEN PayloadRequestAfter(readHeader(wsctx, r1, e))
  ELSE IF wsctx.state = WS_STATE_DECODING_DATA_NEEDED
          \/ wsctx.state = WS_STATE_DECODING_CLOSE_REASON_PENDING
  THEN readAndDecodeRequest(wsctx)
  ELSE 0

-----------------------------------------------------------------------------
(* The client: RFC 6455 frames as they go onto the wire *)

\* A frame is [fin, opcode, masked, enc, plen]: enc is the length encoding
\* used ("short": 7 bits, "ext16": 126 + 16 bits, "ext64": 127 + 64 bits),
\* whether or not it is the minimal one for plen.
Frame(fin, opcode, masked, enc, plen) ==
  [fin |-> fin, opcode |-> opcode, masked |-> masked, enc |-> enc, plen |-> plen]

\* "QUJDRA==", the Base64 text of "ABCD"
B64Text == <<81, 85, 74, 68, 82, 65, 61, 61>>

\* the payload the client means to send in its j-th frame, before masking:
\* Base64 text in a TEXT frame, bytes that tell frame and offset otherwise
PlainPayload(f, j) ==
  IF f.opcode = WS_OPCODE_TEXT_FRAME
  THEN [i \in 1..f.plen |-> B64Text[((i - 1) % Len(B64Text)) + 1]]
  ELSE [i \in 1..f.plen |-> 32 * j + i]

\* the masking key of the j-th frame
MaskOf(j) == <<55 + j, 250 - j, 33, 61 + 2 * j>>

LengthBytes(f) ==
  IF f.enc = "short" THEN <<>>
  ELSE IF f.enc = "ext16" THEN <<f.plen \div 256, f.plen % 256>>
  ELSE <<0, 0, 0, 0, 0, f.plen \div 65536, (f.plen \div 256) % 256, f.plen % 256>>

Len7(f) ==
  IF f.enc = "short" THEN f.plen ELSE IF f.enc = "ext16" THEN 126 ELSE 127

\* the bytes of the j-th frame on the wire
FrameBytes(f, j) ==
  LET plain == PlainPayload(f, j)
      mask == MaskOf(j)
  IN  <<f.fin * 128 + f.opcode, (IF f.masked THEN 128 ELSE 0) + Len7(f)>>
        \o LengthBytes(f)
        \o (IF f.masked THEN mask ELSE <<>>)
        \o [i \in 1..f.plen |->
              IF f.masked THEN Xor8(plain[i], mask[((i - 1) % 4) + 1])
              ELSE plain[i]]

\* the length is encoded with the minimum number of bytes
MinimalLength(f) ==
  \/ f.enc = "short" /\ f.plen < 126
  \/ f.enc = "ext16" /\ f.plen >= 126 /\ f.plen < 65536
  \/ f.enc = "ext64" /\ f.plen >= 65536

\* a payload longer than codeBufDecode has room for after the header
LongPayload == BufSize - 4

Binary(fin, n) == Frame(fin, WS_OPCODE_BINARY_FRAME, TRUE, "short", n)
Cont(fin, n) == Frame(fin, WS_OPCODE_CONTINUATION, TRUE, "short", n)
Text(n) == Frame(1, WS_OPCODE_TEXT_FRAME, TRUE, "short", n)
Control(fin, opcode, n) == Frame(fin, opcode, TRUE, "short", n)

\* one legal BINARY frame: empty, shorter than a mask word, a word and a
\* tail, more than the header read takes in, more than the buffer holds
SingleBinary == {<<Binary(1, n)>> : n \in {0, 1, 3, 5, 9, LongPayload}}

\* two data frames back to back (the first with a payload, or empty), two
\* fragments, a PING between fragments
Messages ==
  {<<Binary(1, 1), Binary(1, 1)>>,
   <<Binary(1, 0), Binary(1, 1)>>,
   <<Binary(0, 1), Cont(1, 1)>>,
   <<Binary(0, 1), Control(1, WS_OPCODE_PING, 0), Cont(1, 1)>>}

\* Base64 text, control frames
Others ==
  {<<Text(8)>>,
   <<Control(1, WS_OPCODE_CLOSE, 2)>>,
   <<Control(1, WS_OPCODE_PING, 1)>>,
   <<Control(1, WS_OPCODE_PONG, 0)>>}

\* frames the decoder has to reject
Illegal ==
  {<<Frame(1, WS_OPCODE_BINARY_FRAME, FALSE, "short", 1)>>,
   <<Frame(1, WS_OPCODE_BINARY_FRAME, TRUE, "ext16", 5)>>,
   <<Frame(1, WS_OPCODE_BINARY_FRAME, TRUE, "ext64", 5)>>,
   <<Control(0, WS_OPCODE_PING, 0)>>,
   <<Cont(1, 2)>>}

\* a new BINARY frame while a fragmented message is open
Unfinished == {<<Binary(0, 1), Binary(1, 1)>>}

\* masked frames with an opcode RFC 6455 reserves: a data frame (0x3) and a
\* control frame (0xB)
Reserved ==
  {<<Frame(1, 3, TRUE, "short", 1)>>, <<Frame(1, 11, TRUE, "short", 0)>>}

\* a TEXT frame whose payload is no Base64 text: "QUJDRA==QUJDRA==" has
\* characters after the padding
BadText == {<<Text(2 * Len(B64Text))>>}

\* what a client sends in one run is the beginning of one of these
Conversations ==
  SingleBinary \cup Messages \cup Others \cup Illegal \cup Unfinished
    \cup Reserved \cup BadText

\* the frames a client that has sent s may send next
NextFrames(s) ==
  {c[Len(s) + 1] : c \in {d \in Conversations :
                            Len(d) > Len(s) /\ SubSeq(d, 1, Len(s)) = s}}

\* sizes of the caller's buffer: one byte, less than a word, and enough for
\* everything the decoder can hold
DstLens == {1, 3, BufSize}

-----------------------------------------------------------------------------
(* The state machine *)

\* call.reads: the outcomes of the header read and of the payload read;
\* call.hdr: the header bytes in codeBufDecode when readHeader looked at them;
\* call.cont: continuation_opcode on entry; call.n: bytes copied to dst
NoCall ==
  [reads |-> <<NoRead, NoRead>>, result |-> -1, endState |-> "",
   hdr |-> <<>>, cont |-> WS_OPCODE_INVALID, n |-> 0]

\* the client record once webSocketsHandshake has succeeded on a plain
\* socket: the session exists, nothing but the 101 response was written
Established ==
  [wsctx |-> TRUE, base64 |-> FALSE, sslctx |-> FALSE, ret |-> "TRUE",
   written |-> <<>>, wspath |-> <<"/">>, conn |-> <<>>]

Init ==
  /\ dec = NewDecodingCtx
  /\ errno = ""
  /\ stream = <<>>
  /\ closed = FALSE
  /\ sent = <<>>
  /\ wire = <<>>
  /\ out = <<>>
  /\ call = NoCall
  /\ fails = 0
  /\ decB = NewDecodingCtx
  /\ streamB = <<>>
  /\ outB = <<>>
  /\ retB = -1
  /\ cl = Established

\* the client sends one more frame
ClientSend(f) ==
  /\ ~closed
  /\ sent' = Append(sent, f)
  /\ wire' = wire \o FrameBytes(f, Len(sent) + 1)
  /\ stream' = stream \o FrameBytes(f, Len(sent) + 1)
  /\ streamB' = streamB \o FrameBytes(f, Len(sent) + 1)
  /\ UNCHANGED <<dec, errno, closed, out, call, fails, decB, outB, retB, cl>>

\* header bytes in codeBufDecode when readHeader looks at them
HeaderSeen(wsctx, strm, c1) ==
  IF wsctx.state = WS_STATE_DECODING_HEADER_PENDING /\ c1 > 0
  THEN Slice(wsctx.codeBufDecode, 0, wsctx.header.nDone) \o SubSeq(strm, 1, c1)
  ELSE <<>>

\* the effect of a call with result r on the state
Return(r, c1, c2) ==
  /\ dec' = r.ctx
  /\ errno' = r.errno
  /\ stream' = Drop(Drop(stream, c1), c2)
  /\ out' = out \o r.dst
  /\ closed' = (closed \/ c1 = ReadEOF \/ c2 = ReadEOF)
  /\ call' = [reads |-> <<ReadKind(c1), ReadKind(c2)>>,
              result |-> r.result, endState |-> r.endState,
              hdr |-> HeaderSeen(dec, stream, c1),
              cont |-> dec.continuation_opcode, n |-> Len(r.dst)]
  /\ fails' = fails + (IF Failed(c1) \/ Failed(c2) THEN 1 ELSE 0)

\* the host calls webSocketsDecode(cl, dst, len); c1 and c2 are the outcomes
\* of the lower reads the call makes
Recv(len, c1, c2) ==
  /\ Return(webSocketsDecode(dec, len, lowerRead(stream, c1),
                             lowerRead(Drop(stream, c1), c2), errno),
            c1, c2)
  /\ UNCHANGED <<sent, wire, decB, streamB, outB, retB, cl>>

\* the outcomes the header read of a call can have
HeaderChoices(wsctx, strm, isClosed, mayFail) ==
  IF HeaderRequest(wsctx) > 0
  THEN ReadChoices(strm, isClosed, mayFail, HeaderRequest(wsctx))
  ELSE {NoRead}

\* the outcomes its payload read can have
PayloadChoices(wsctx, strm, isClosed, mayFail, c1, e) ==
  IF PayloadRequest(wsctx, lowerRead(strm, c1), e) > 0
  THEN ReadChoices(Drop(strm, c1), isClosed, mayFail,
                   PayloadRequest(wsctx, lowerRead(strm, c1), e))
  ELSE {NoRead}

RecvCall ==
  \E len \in DstLens :
    \E c1 \in HeaderChoices(dec, stream, closed, fails < MaxFails) :
      \E c2 \in PayloadChoices(dec, stream, closed, fails < MaxFails,
                                c1, errno) :
        Recv(len, c1, c2)

Next ==
  \/ \E f \in NextFrames(sent) : ClientSend(f)
  \/ RecvCall

Spec == Init /\ [][Next]_vars

-----------------------------------------------------------------------------
(* Two decoders on the same bytes: dec is handed one byte by every lower     *)
(* read, decB as many bytes as the read asks for                             *)

\* of the outcomes S of a read, those that deliver one byte or none
ByteChoices(S) == {c \in S : c <= 1}

\* of the outcomes S of a read, the one that delivers most
ChunkChoices(S) == {c \in S : \A d \in S : d <= c}

RecvByte ==
  \E len \in DstLens :
    \E c1 \in ByteChoices(HeaderChoices(dec, stream, closed, FALSE)) :
      \E c2 \in ByteChoices(PayloadChoices(dec, stream, closed, FALSE,
                                            c1, errno)) :
        Recv(len, c1, c2)

\* the effect of a call of the second decoder with result r
ReturnB(r, c1, c2) ==
  /\ decB' = r.ctx
  /\ streamB' = Drop(Drop(streamB, c1), c2)
  /\ outB' = outB \o r.dst
  /\ retB' = r.result
  /\ closed' = (closed \/ c1 = ReadEOF \/ c2 = ReadEOF)
  /\ UNCHANGED <<dec, errno, stream, sent, wire, out, call, fails, cl>>

RecvChunk ==
  \E len \in DstLens :
    \E c1 \in ChunkChoices(HeaderChoices(decB, streamB, closed, FALSE)) :
      \E c2 \in ChunkChoices(PayloadChoices(decB, streamB, closed, FALSE,
                                             c1, "")) :
        ReturnB(webSocketsDecode(decB, len, lowerRead(streamB, c1),
                                 lowerRead(Drop(streamB, c1), c2), ""),
                c1, c2)

NextPair ==
  \/ \E f \in NextFrames(sent) : ClientSend(f)
  \/ RecvByte
  \/ RecvChunk

SpecPair == Init /\ [][NextPair]_vars

-----------------------------------------------------------------------------
(* One frame, lower reads that never fail, and a host that keeps calling     *)

\* one well-formed masked frame of each opcode; of the control frames, one
\* with more payload than codeBufDecode has room for
LiveFrames ==
  {Binary(1, 0), Binary(1, 5), Binary(1, LongPayload), Text(8),
   Control(1, WS_OPCODE_CLOSE, 2), Control(1, WS_OPCODE_PING, 1),
   Control(1, WS_OPCODE_PONG, 0), Control(1, WS_OPCODE_PING, LongPayload)}

SendOne == \E f \in LiveFrames : sent = <<>> /\ ClientSend(f)

\* a call whose lower reads deliver bytes, or meet the end of the stream
RecvLive ==
  \E len \in DstLens :
    \E c1 \in HeaderChoices(dec, stream, closed, FALSE) :
      \E c2 \in PayloadChoices(dec, stream, closed, FALSE, c1, errno) :
        Recv(len, c1, c2)

NextLive ==
  \/ SendOne
  \/ RecvLive

\* the host calls again whenever a call can change anything
SpecLive == Init /\ [][NextLive]_vars /\ WF_vars(RecvLive)

-----------------------------------------------------------------------------
(* Properties *)

IsPrefix(s, t) == Len(s) <= Len(t) /\ SubSeq(t, 1, Len(s)) = s

isDataFrame(f) ==
  f.opcode = WS_OPCODE_BINARY_FRAME \/ f.opcode = WS_OPCODE_CONTINUATION

RECURSIVE PayloadsFrom(_, _)
\* the payloads of the data frames among frames j .. Len(s) of s, in order
PayloadsFrom(s, j) ==
  IF j > Len(s) THEN <<>>
  ELSE (IF isDataFrame(s[j]) THEN PlainPayload(s[j], j) ELSE <<>>)
         \o PayloadsFrom(s, j + 1)

\* what the caller is to receive of the frames s
Expected(s) == PayloadsFrom(s, 1)

\* masked BINARY frames with minimal length, fragmented or not
WellFormedData(s) ==
  \A i \in 1..Len(s) :
    /\ s[i].masked
    /\ MinimalLength(s[i])
    /\ \/ s[i].opcode = WS_OPCODE_BINARY_FRAME /\ (i = 1 \/ s[i - 1].fin = 1)
       \/ s[i].opcode = WS_OPCODE_CONTINUATION /\ i > 1 /\ s[i - 1].fin = 0

\* every byte sent has been read and the decoder is between two frames
Drained ==
  /\ stream = <<>>
  /\ dec.state = WS_STATE_DECODING_HEADER_PENDING
  /\ dec.header.nDone = 0

\* C1: when both decoders have read the stream to its end, the one fed a
\* byte at a time and the one fed whole chunks have delivered the same bytes.
C1_SameOutput == (call.result = 0 /\ retB = 0) => out = outB

\* C2: for well-formed masked BINARY/CONT frames and lower reads that do not
\* fail, what has been delivered is always a beginning of the frames'
\* payloads in arrival order, and all of them once every byte was decoded.
C2_InOrder ==
  (WellFormedData(sent) /\ fails = 0)
    => /\ IsPrefix(out, Expected(sent))
       /\ Drained => out = Expected(sent)

\* C3: for one legal masked BINARY frame, any split of its bytes over the
\* lower reads and any size of the caller's buffer, the bytes delivered are
\* the payload unmasked, byte for byte.
C3_Unmasked ==
  (sent \in SingleBinary /\ fails = 0)
    => /\ IsPrefix(out, PlainPayload(sent[1], 1))
       /\ Drained => out = PlainPayload(sent[1], 1)

\* a frame longer than the buffer was delivered whole, bytes of it were
\* carried over from one read to the next, and its end came in a read of
\* its own
C3_Witness ==
  /\ sent = <<Binary(1, LongPayload)>>
  /\ fails = 0
  /\ Drained
  /\ out = PlainPayload(sent[1], 1)
  /\ call.reads = <<NoRead, 1>>
  /\ dec.carryBuf[1] # 0

PingBetweenFragments ==
  <<Binary(0, 1), Control(1, WS_OPCODE_PING, 0), Cont(1, 1)>>

\* C4: a PING between the two fragments of a message adds nothing to the
\* bytes delivered, which are those of the two fragments, and no call fails
\* with anything but EAGAIN.
C4_PingBetweenFragments ==
  (sent = PingBetweenFragments /\ fails = 0 /\ ~closed)
    => /\ IsPrefix(out, Expected(sent))
       /\ Drained => out = Expected(sent)
       /\ (call # NoCall /\ call.result = -1) => errno = "EAGAIN"

\* what C5 says a failed lower read leaves alone
PartialState(d) ==
  <<d.state, d.header, d.nReadPayload, d.carryBuf, d.carrylen,
    d.continuation_opcode, Slice(d.codeBufDecode, 0, d.header.nDone)>>

\* C5: a call whose lower read fails with EAGAIN, be it the header read with
\* header bytes already buffered or the payload read of a call entered in
\* DATA_NEEDED or CLOSE_REASON_PENDING, returns -1 with errno EAGAIN and
\* leaves the decoder's partial state as it was.
C5_AgainKeepsState ==
  [][(/\ wire' = wire
      /\ \/ /\ dec.state = WS_STATE_DECODING_HEADER_PENDING
            /\ dec.header.nDone > 0
            /\ call'.reads[1] = ReadEAGAIN
         \/ /\ dec.state \in {WS_STATE_DECODING_DATA_NEEDED,
                              WS_STATE_DECODING_CLOSE_REASON_PENDING}
            /\ call'.reads[2] = ReadEAGAIN)
     => (/\ call'.result = -1
         /\ errno' = "EAGAIN"
         /\ PartialState(dec') = PartialState(dec))]_vars

CloseWithReason == <<Control(1, WS_OPCODE_CLOSE, 2)>>

\* C7: of a CLOSE frame nothing is delivered; while its header is read and
\* its payload is not, a call returns -1 with errno EAGAIN and leaves the
\* decoder in CLOSE_REASON_PENDING; the call that reads its last byte
\* returns -1 with errno ECONNRESET. The lower reads fail with EAGAIN only.
C7_Close ==
  (/\ sent = CloseWithReason
   /\ ~closed
   /\ call # NoCall
   /\ fails = 0 \/ (fails = 1 /\ ReadEAGAIN \in {call.reads[1], call.reads[2]}))
    => /\ out = <<>>
       /\ (Len(stream) \in {1, 2})
            => /\ call.result = -1
               /\ errno = "EAGAIN"
               /\ dec.state = WS_STATE_DECODING_CLOSE_REASON_PENDING
       /\ (stream = <<>> /\ (call.reads[1] = 1 \/ call.reads[2] = 1))
            => call.result = -1 /\ errno = "ECONNRESET"

\* C8: a call returns 0 exactly when one of its lower reads returned 0.
C8_ZeroIffEof ==
  call # NoCall
    => (call.result = 0
          <=> (call.reads[1] = ReadEOF \/ call.reads[2] = ReadEOF))

\* the end of the stream met by the payload read
C8_Witness == call.result = 0 /\ call.reads = <<1, ReadEOF>>

\* the MASK bit of a header h is 0
HeaderUnmasked(h) == Len(h) >= 2 /\ h[2] < 128

\* the length of a header h is complete and not minimally encoded
HeaderNonMinimal(h) ==
  \/ /\ Len(h) >= WS_HYBI_HEADER_LEN_EXTENDED_MASKED
     /\ h[2] % 128 = 126
     /\ WS_NTOH16(h, 2) < 126
  \/ /\ Len(h) >= WS_HYBI_HEADER_LEN_LONG_MASKED
     /\ h[2] % 128 = 127
     /\ WS_NTOH64(h, 2) < 65536

\* C9: a call in which readHeader sees a header with the MASK bit 0, or one
\* with a complete length that is not minimally encoded, returns -1 with
\* errno EPROTO and copies nothing; of a frame with such a header sent on
\* its own nothing is ever delivered.
C9_Rejected ==
  /\ (HeaderUnmasked(call.hdr) \/ HeaderNonMinimal(call.hdr))
       => /\ call.result = -1
          /\ errno = "EPROTO"
          /\ call.n = 0
  /\ (Len(sent) = 1 /\ (~sent[1].masked \/ ~MinimalLength(sent[1])))
       => out = <<>>

\* a 16-bit length below 126 was rejected when its last header byte came in
C9_Witness ==
  /\ sent = <<Frame(1, WS_OPCODE_BINARY_FRAME, TRUE, "ext16", 5)>>
  /\ Len(call.hdr) = WS_HYBI_HEADER_LEN_EXTENDED_MASKED
  /\ HeaderNonMinimal(call.hdr)
  /\ call.result = -1
  /\ errno = "EPROTO"
  /\ Len(stream) = 5

\* a header h of a control frame with FIN 0
HeaderFragmentedControl(h) ==
  Len(h) >= 2 /\ (h[1] % 16) \div 8 = 1 /\ h[1] < 128

\* a header h of a continuation frame
HeaderContinuation(h) == Len(h) >= 2 /\ h[1] % 16 = WS_OPCODE_CONTINUATION

\* C10: a call in which readHeader sees the first two bytes of a control
\* frame with FIN 0, or of a continuation frame while no opcode is
\* remembered, returns -1 with errno EPROTO.
C10_Rejected ==
  (\/ HeaderFragmentedControl(call.hdr)
   \/ HeaderContinuation(call.hdr) /\ call.cont = WS_OPCODE_INVALID)
    => call.result = -1 /\ errno = "EPROTO"

\* a continuation frame without a message open was rejected on its second
\* byte
C10_Witness ==
  /\ sent = <<Cont(1, 2)>>
  /\ Len(call.hdr) = 2
  /\ HeaderContinuation(call.hdr)
  /\ call.cont = WS_OPCODE_INVALID
  /\ call.result = -1
  /\ errno = "EPROTO"

\* a header h of a TEXT or BINARY frame
HeaderFreshData(h) ==
  Len(h) >= 2 /\ h[1] % 16 \in {WS_OPCODE_TEXT_FRAME, WS_OPCODE_BINARY_FRAME}

\* C11: while the opcode of a fragmented message is remembered, a call in
\* which readHeader sees for the first time the first two bytes of a TEXT
\* or BINARY frame returns -1 with errno EPROTO.
C11_FreshRejected ==
  [][(/\ wire' = wire
      /\ dec.continuation_opcode # WS_OPCODE_INVALID
      /\ dec.header.nDone < 2
      /\ HeaderFreshData(call'.hdr))
     => (call'.result = -1 /\ errno' = "EPROTO")]_vars

\* a complete header h of a masked frame whose opcode is none of CONT, TEXT,
\* BINARY, CLOSE, PING and PONG
HeaderReserved(h) ==
  /\ Len(h) >= WS_HYBI_HEADER_LEN_SHORT_MASKED
  /\ h[2] >= 128
  /\ h[1] % 16 \notin {WS_OPCODE_CONTINUATION, WS_OPCODE_TEXT_FRAME,
                        WS_OPCODE_BINARY_FRAME, WS_OPCODE_CLOSE,
                        WS_OPCODE_PING, WS_OPCODE_PONG}

\* C12: a call in which readHeader has the complete header of a masked frame
\* with a reserved opcode returns -1 with errno EPROTO, and no call ends
\* with such a frame consumed as a frame.
C12_ReservedRejected ==
  (sent \in Reserved /\ fails = 0 /\ call # NoCall)
    => /\ HeaderReserved(call.hdr) => (call.result = -1 /\ errno = "EPROTO")
       /\ call.endState # WS_STATE_DECODING_FRAME_COMPLETE

\* a call with buffer size len and read outcomes c1, c2 changes the decoder
\* or takes bytes from the socket
CallChanges(len, c1, c2) ==
  \/ c1 > 0
  \/ c2 > 0
  \/ webSocketsDecode(dec, len, lowerRead(stream, c1),
                      lowerRead(Drop(stream, c1), c2), errno).ctx # dec

\* bytes of the frame are waiting in the socket and no call the host can
\* make reads any of them or changes the decoder
Stuck ==
  /\ stream # <<>>
  /\ \A len \in DstLens :
       \A c1 \in HeaderChoices(dec, stream, closed, FALSE) :
         \A c2 \in PayloadChoices(dec, stream, closed, FALSE, c1, errno) :
           ~CallChanges(len, c1, c2)

\* C13: the decoder makes progress on a well-formed masked frame of any
\* opcode and length: as long as bytes of the frame are to be read, some
\* call of the host reads of them or advances the decoder, so that the
\* frame can be consumed and the decoder can return to HEADER_PENDING.
C13_Progress == sent # <<>> => ~Stuck

-----------------------------------------------------------------------------
(* websockets.c: webSocketsCheck and webSocketsHandshake                     *)
(*                                                                           *)
(* C strings are tuples of characters, NUL being the terminator; pointers    *)
(* into buf are byte offsets (NULL == -1), offset o being element o + 1.     *)
(* Allocation is taken to succeed.                                           *)

NUL == "NUL"

WEBSOCKETS_MAX_HANDSHAKE_LEN == 4096
SZ_FLASH_POLICY_RESPONSE == 93

\* the array of the string literal FLASH_POLICY_RESPONSE: 89 characters and
\* the terminating NUL
FLASH_POLICY_RESPONSE ==
  <<"<", "c", "r", "o", "s", "s", "-", "d", "o", "m", "a", "i", "n", "-",
    "p", "o", "l", "i", "c", "y", ">", "<", "a", "l", "l", "o", "w", "-",
    "a", "c", "c", "e", "s", "s", "-", "f", "r", "o", "m", " ", "d", "o",
    "m", "a", "i", "n", "=", "\"", "*", "\"", " ", "t", "o", "-", "p", "o",
    "r", "t", "s", "=", "\"", "*", "\"", " ", "/", ">", "<", "/", "c", "r",
    "o", "s", "s", "-", "d", "o", "m", "a", "i", "n", "-", "p", "o", "l",
    "i", "c", "y", ">", "\n", NUL>>

\* the characters of the two response templates around the %s
SERVER_HANDSHAKE_HYBI_Accept ==
  <<"H", "T", "T", "P", "/", "1", ".", "1", " ", "1", "0", "1", " ", "S",
    "w", "i", "t", "c", "h", "i", "n", "g", " ", "P", "r", "o", "t", "o",
    "c", "o", "l", "s", "\r", "\n", "U", "p", "g", "r", "a", "d", "e", ":",
    " ", "w", "e", "b", "s", "o", "c", "k", "e", "t", "\r", "\n", "C", "o",
    "n", "n", "e", "c", "t", "i", "o", "n", ":", " ", "U", "p", "g", "r",
    "a", "d", "e", "\r", "\n", "S", "e", "c", "-", "W", "e", "b", "S", "o",
    "c", "k", "e", "t", "-", "A", "c", "c", "e", "p", "t", ":", " ">>

SERVER_HANDSHAKE_HYBI_Protocol ==
  <<"\r", "\n", "S", "e", "c", "-", "W", "e", "b", "S", "o", "c", "k", "e",
    "t", "-", "P", "r", "o", "t", "o", "c", "o", "l", ":", " ">>

CRLF ==
  <<"\r", "\n">>

\* snprintf(response, ..., SERVER_HANDSHAKE_HYBI, accept, protocol)
SERVER_HANDSHAKE_HYBI(accept, protocol) ==
  SERVER_HANDSHAKE_HYBI_Accept \o accept \o SERVER_HANDSHAKE_HYBI_Protocol
    \o protocol \o CRLF \o CRLF

\* snprintf(response, ..., SERVER_HANDSHAKE_HYBI_NO_PROTOCOL, accept)
SERVER_HANDSHAKE_HYBI_NO_PROTOCOL(accept) ==
  SERVER_HANDSHAKE_HYBI_Accept \o accept \o CRLF \o CRLF

\* what follows the array of FLASH_POLICY_RESPONSE in memory is not defined
\* by the program: any bytes
AfterLiteral == {<<"H", "T", "T">>, <<NUL, NUL, NUL>>}

UpperCase ==
  <<"A", "B", "C", "D", "E", "F", "G", "H", "I", "J", "K", "L", "M", "N",
    "O", "P", "Q", "R", "S", "T", "U", "V", "W", "X", "Y", "Z">>

LowerCase ==
  <<"a", "b", "c", "d", "e", "f", "g", "h", "i", "j", "k", "l", "m", "n",
    "o", "p", "q", "r", "s", "t", "u", "v", "w", "x", "y", "z">>

Digits ==
  <<"0", "1", "2", "3", "4", "5", "6", "7", "8", "9">>

tolower(c) ==
  IF \E i \in 1..Len(UpperCase) : UpperCase[i] = c
  THEN LowerCase[CHOOSE i \in 1..Len(UpperCase) : UpperCase[i] = c]
  ELSE c

\* strncmp(s1, s2, n) == 0 and strncasecmp(s1, s2, n) == 0, for n within
\* both strings
strncmp0(s1, s2, n) == \A i \in 1..n : s1[i] = s2[i]
strncasecmp0(s1, s2, n) == \A i \in 1..n : tolower(s1[i]) = tolower(s2[i])

\* strstr(haystack, needle) != NULL
strstr(haystack, needle) ==
  \E i \in 0..(Len(haystack) - Len(needle)) :
    SubSeq(haystack, i + 1, i + Len(needle)) = needle

isdigit(c) == \E i \in 1..Len(Digits) : Digits[i] = c
digit(c) == (CHOOSE i \in 1..Len(Digits) : Digits[i] = c) - 1

\* the value strtol saturates at (LONG_MAX, cut to what the model's
\* integers hold; its low byte is 0xff like that of LONG_MAX)
StrtolMax == 2147483647

RECURSIVE strtolDigits(_, _, _)
strtolDigits(s, i, acc) ==
  IF i <= Len(s) /\ isdigit(s[i])
  THEN strtolDigits(s, i + 1,
                    IF acc >= StrtolMax \div 10 THEN StrtolMax
                    ELSE acc * 10 + digit(s[i]))
  ELSE acc

RECURSIVE strtolSkip(_, _)
strtolSkip(s, i) ==
  IF i <= Len(s) /\ s[i] \in {" ", "\t"} THEN strtolSkip(s, i + 1) ELSE i

strtolFrom(s, i) ==
  IF i <= Len(s) /\ s[i] = "-" THEN 0 - strtolDigits(s, i + 1, 0)
  ELSE IF i <= Len(s) /\ s[i] = "+" THEN strtolDigits(s, i + 1, 0)
  ELSE strtolDigits(s, i, 0)

\* strtol(s, NULL, 10)
strtol(s) == strtolFrom(s, strtolSkip(s, 1))

\* conversion of a long to char: the low byte (only whether it is 0 matters
\* to the handshake)
toChar(v) == v % 256

\* the C string at offset p of buf
CStrEnd(buf, p) ==
  IF \E i \in (p + 1)..Len(buf) : buf[i] = NUL
  THEN (CHOOSE i \in (p + 1)..Len(buf) :
          buf[i] = NUL /\ \A k \in (p + 1)..(i - 1) : buf[k] # NUL) - 1
  ELSE Len(buf)

CStr(buf, p) == SubSeq(buf, p + 1, CStrEnd(buf, p))

\* the header names webSocketsHandshake looks for
GET_ ==
  <<"G", "E", "T", " ">>
HOST_ ==
  <<"h", "o", "s", "t", ":", " ">>
ORIGIN_ ==
  <<"o", "r", "i", "g", "i", "n", ":", " ">>
KEY1_ ==
  <<"s", "e", "c", "-", "w", "e", "b", "s", "o", "c", "k", "e", "t", "-",
    "k", "e", "y", "1", ":", " ">>
KEY2_ ==
  <<"s", "e", "c", "-", "w", "e", "b", "s", "o", "c", "k", "e", "t", "-",
    "k", "e", "y", "2", ":", " ">>
PROTOCOL_ ==
  <<"s", "e", "c", "-", "w", "e", "b", "s", "o", "c", "k", "e", "t", "-",
    "p", "r", "o", "t", "o", "c", "o", "l", ":", " ">>
SEC_ORIGIN_ ==
  <<"s", "e", "c", "-", "w", "e", "b", "s", "o", "c", "k", "e", "t", "-",
    "o", "r", "i", "g", "i", "n", ":", " ">>
KEY_ ==
  <<"s", "e", "c", "-", "w", "e", "b", "s", "o", "c", "k", "e", "t", "-",
    "k", "e", "y", ":", " ">>
VERSION_ ==
  <<"s", "e", "c", "-", "w", "e", "b", "s", "o", "c", "k", "e", "t", "-",
    "v", "e", "r", "s", "i", "o", "n", ":", " ">>
BINARY_ ==
  <<"b", "i", "n", "a", "r", "y">>
BASE64_ ==
  <<"b", "a", "s", "e", "6", "4">>

\* webSocketsHandshake: the local variables of the read loop
NewHandshake(bytes) ==
  [buf |-> bytes, len |-> 0, linestart |-> 0,
   path |-> NULL, host |-> NULL, origin |-> NULL, protocol |-> NULL,
   key1 |-> NULL, key2 |-> NULL, key3 |-> NULL, sec_ws_origin |-> NULL,
   sec_ws_key |-> NULL, sec_ws_version |-> 0, wspath |-> <<>>]

\* a header line "name: value\r\n" that ends at len: the pointer is set past
\* the name (n characters) and buf[len-2] = '\0'
handshakeValue(h, len, n) ==
  [buf |-> [h.buf EXCEPT ![len - 1] = NUL], p |-> h.linestart + n]

\* the if/else-if chain on a line of llen characters that ends at len and is
\* not the blank line
handshakeHeader(h, line, llen, len) ==
  IF llen >= 16 /\ strncmp0(GET_, line, Min(llen, 4)) THEN
    [h EXCEPT !.path = h.linestart + 4,
              !.buf = [h.buf EXCEPT ![len - 10] = NUL],
              !.wspath = CStr([h.buf EXCEPT ![len - 10] = NUL],
                              h.linestart + 4)]
  ELSE IF strncasecmp0(HOST_, line, Min(llen, 6)) THEN
    [h EXCEPT !.host = handshakeValue(h, len, 6).p,
              !.buf = handshakeValue(h, len, 6).buf]
  ELSE IF strncasecmp0(ORIGIN_, line, Min(llen, 8)) THEN
    [h EXCEPT !.origin = handshakeValue(h, len, 8).p,
              !.buf = handshakeValue(h, len, 8).buf]
  ELSE IF strncasecmp0(KEY1_, line, Min(llen, 20)) THEN
    [h EXCEPT !.key1 = handshakeValue(h, len, 20).p,
              !.buf = handshakeValue(h, len, 20).buf]
  ELSE IF strncasecmp0(KEY2_, line, Min(llen, 20)) THEN
    [h EXCEPT !.key2 = handshakeValue(h, len, 20).p,
              !.buf = handshakeValue(h, len, 20).buf]
  ELSE IF strncasecmp0(PROTOCOL_, line, Min(llen, 24)) THEN
    [h EXCEPT !.protocol = handshakeValue(h, len, 24).p,
              !.buf = handshakeValue(h, len, 24).buf]
  ELSE IF strncasecmp0(SEC_ORIGIN_, line, Min(llen, 22)) THEN
    [h EXCEPT !.sec_ws_origin = handshakeValue(h, len, 22).p,
              !.buf = handshakeValue(h, len, 22).buf]
  ELSE IF strncasecmp0(KEY_, line, Min(llen, 19)) THEN
    [h EXCEPT !.sec_ws_key = handshakeValue(h, len, 19).p,
              !.buf = handshakeValue(h, len, 19).buf]
  ELSE IF strncasecmp0(VERSION_, line, Min(llen, 23)) THEN
    [h EXCEPT !.sec_ws_version = toChar(strtol(SubSeq(line, 24, llen))),
              !.buf = handshakeValue(h, len, 23).buf]
  ELSE h

\* the blank line ends at len: with key1 and key2, 8 more bytes are read
\* (key3); avail bytes are to be had, then the reads end as readEnd says
handshakeBlank(h, len, avail, readEnd) ==
  IF h.key1 # NULL /\ h.key2 # NULL THEN
    IF avail - len >= 8
    THEN [h |-> [h EXCEPT !.key3 = len, !.len = len + 8], exit |-> "break"]
    ELSE IF readEnd = "ETIMEDOUT"
    THEN [h |-> [h EXCEPT !.len = len], exit |-> "break"]
    ELSE [h |-> [h EXCEPT !.len = len], exit |-> "FALSE"]
  ELSE [h |-> [h EXCEPT !.len = len,
                        !.buf = IF len < Len(h.buf)
                                THEN [h.buf EXCEPT ![len + 1] = NUL]
                                ELSE Append(h.buf, NUL)],
        exit |-> "break"]

\* the ends of the lines the loop looks at after h.len: a '\n' that makes the
\* line two characters or more, read before the buffer is full
handshakeLineEnds(h, avail) ==
  {j \in (h.len + 1)..Min(avail, WEBSOCKETS_MAX_HANDSHAKE_LEN - 1) :
     h.buf[j] = "\n" /\ j - h.linestart >= 2}

RECURSIVE handshakeLoop(_, _, _)
RECURSIVE handshakeLine(_, _, _, _)
\* while (len < WEBSOCKETS_MAX_HANDSHAKE_LEN-1), taken from line to line:
\* bytes are read one at a time and nothing happens until a line ends
handshakeLoop(h, avail, readEnd) ==
  IF handshakeLineEnds(h, avail) = {} THEN
    IF avail >= WEBSOCKETS_MAX_HANDSHAKE_LEN - 1
    THEN [h |-> [h EXCEPT !.len = WEBSOCKETS_MAX_HANDSHAKE_LEN - 1],
          exit |-> "full"]
    ELSE IF readEnd = "ETIMEDOUT"
    THEN [h |-> [h EXCEPT !.len = avail], exit |-> "break"]
    ELSE [h |-> [h EXCEPT !.len = avail], exit |-> "FALSE"]
  ELSE handshakeLine(h, avail, readEnd,
                     CHOOSE j \in handshakeLineEnds(h, avail) :
                       \A k \in handshakeLineEnds(h, avail) : j <= k)

\* the line that ends at len
handshakeLine(h, avail, readEnd, len) ==
  IF len - h.linestart = 2
     /\ strncmp0(CRLF, SubSeq(h.buf, h.linestart + 1, len), 2)
  THEN handshakeBlank(h, len, avail, readEnd)
  ELSE handshakeLoop(
         [handshakeHeader(h, SubSeq(h.buf, h.linestart + 1, len),
                          len - h.linestart, len)
            EXCEPT !.len = len, !.linestart = len],
         avail, readEnd)


\* webSocketsGenSha1Key: the Base64 text of the SHA-1 of key and GUID. The
\* digest is not computed: the accept value is the key between braces.
webSocketsGenSha1Key(key) == <<"{">> \o key \o <<"}">>

\* one call of rfbWriteExact, as the client record keeps it: what was to
\* be written and whether the write succeeded
rfbWriteExact(c, data, ok) ==
  [c EXCEPT !.written = Append(@, [data |-> data, ok |-> ok])]

\* webSocketsHandshake returns FALSE
handshakeFail(c) == [c EXCEPT !.ret = "FALSE"]

\* calloc of the ws_ctx_t, wsctx->base64 = base64, cl->wsctx = wsctx
handshakeSession(c, base64) ==
  [c EXCEPT !.ret = "TRUE", !.wsctx = TRUE, !.base64 = base64]

\* rfbWriteExact(cl, response, len) and what depends on it
handshakeWrite(c, response, base64, writeOK) ==
  IF ~writeOK THEN handshakeFail(rfbWriteExact(c, response, FALSE))
  ELSE handshakeSession(rfbWriteExact(c, response, TRUE), base64)

\* the response for the accept value and the protocol chosen
handshakeResponse(accept, protocol) ==
  IF Len(protocol) > 0 THEN SERVER_HANDSHAKE_HYBI(accept, protocol)
  ELSE SERVER_HANDSHAKE_HYBI_NO_PROTOCOL(accept)

\* the choice of the subprotocol, with "base64" looked for first
handshakeProtocol_base64First(h) ==
  IF h.protocol # NULL /\ strstr(CStr(h.buf, h.protocol), BASE64_)
  THEN [base64 |-> TRUE, protocol |-> BASE64_]
  ELSE IF h.protocol # NULL /\ strstr(CStr(h.buf, h.protocol), BINARY_)
  THEN [base64 |-> FALSE, protocol |-> BINARY_]
  ELSE [base64 |-> TRUE, protocol |-> <<>>]

\* the choice of the subprotocol
handshakeProtocol(h) ==
  IF h.protocol # NULL /\ strstr(CStr(h.buf, h.protocol), BINARY_)
  THEN [base64 |-> FALSE, protocol |-> BINARY_]
  ELSE IF h.protocol # NULL /\ strstr(CStr(h.buf, h.protocol), BASE64_)
  THEN [base64 |-> TRUE, protocol |-> BASE64_]
  ELSE [base64 |-> TRUE, protocol |-> <<>>]

\* the key handed to webSocketsGenSha1Key; without a sec-websocket-key line
\* it is NULL and strlen(NULL) is undefined: here, the empty string
handshakeKey(h) ==
  IF h.sec_ws_key = NULL THEN <<>> ELSE CStr(h.buf, h.sec_ws_key)

\* the test of the headers, with the host line not asked for
handshakeComplete_noHost(h) ==
  h.path # NULL /\ (h.origin # NULL \/ h.sec_ws_origin # NULL)

\* path && host && (origin || sec_ws_origin)
handshakeComplete(h) ==
  h.path # NULL /\ h.host # NULL
    /\ (h.origin # NULL \/ h.sec_ws_origin # NULL)

\* webSocketsHandshake after the read loop; strlenNull is what
\* strlen(NULL) does in this run: it ends the process, or it returns
handshakeReply(c, h, writeOK, strlenNull) ==
  IF h.sec_ws_version = 0 THEN handshakeFail(c)
  ELSE IF ~handshakeComplete(h) THEN handshakeFail(c)
  ELSE IF h.sec_ws_key = NULL /\ strlenNull = "crash"
  THEN [c EXCEPT !.ret = "crash"]
  ELSE handshakeWrite(c,
         handshakeResponse(webSocketsGenSha1Key(handshakeKey(h)),
                           handshakeProtocol(h).protocol),
         handshakeProtocol(h).base64, writeOK)

\* webSocketsHandshake, r being the outcome of its read loop
handshakeAfterLoop(c, r, writeOK, strlenNull) ==
  IF r.exit = "FALSE" THEN handshakeFail([c EXCEPT !.wspath = r.h.wspath])
  ELSE handshakeReply([c EXCEPT !.wspath = r.h.wspath], r.h, writeOK,
                      strlenNull)

webSocketsHandshake(c, bytes, readEnd, writeOK, strlenNull) ==
  handshakeAfterLoop(c, handshakeLoop(NewHandshake(bytes), Len(bytes),
                                      readEnd),
                     writeOK, strlenNull)

\* the 4 bytes a TLS client is first seen to send
ClientHello == <<"x16", "x03", "x01", "x02">>

\* webSocketsCheck from the test for "GET " on
webSocketsCheckGet(c, bbuf, conn, bytes) ==
  IF ~strncmp0(bbuf, GET_, 4) THEN [c EXCEPT !.ret = "FALSE"]
  ELSE webSocketsHandshake(c, bytes, conn.readEnd, conn.writeOK,
                           conn.strlenNull)

\* the bytes rfbWriteExact is handed for FLASH_POLICY_RESPONSE and
\* SZ_FLASH_POLICY_RESPONSE: the array and what follows it in memory
flashPolicyWritten(after) ==
  SubSeq(FLASH_POLICY_RESPONSE \o after, 1, SZ_FLASH_POLICY_RESPONSE)

\* webSocketsCheck after the first peek has filled bbuf
webSocketsCheckPeeked(c, bbuf, conn, bytes) ==
  IF strncmp0(bbuf, <<"<">>, 1) THEN
    [rfbWriteExact(c, flashPolicyWritten(conn.after), conn.writeOK)
       EXCEPT !.ret = "FALSE"]
  ELSE IF strncmp0(bbuf, <<"x16">>, 1) \/ strncmp0(bbuf, <<"x80">>, 1) THEN
    IF conn.tls = "initfail" THEN [c EXCEPT !.ret = "FALSE"]
    ELSE webSocketsCheckGet([c EXCEPT !.sslctx = TRUE],
                            IF conn.tls = "ok" /\ Len(bytes) >= 4
                            THEN SubSeq(bytes, 1, 4) ELSE bbuf,
                            conn, bytes)
  ELSE webSocketsCheckGet(c, bbuf, conn, bytes)

\* webSocketsCheck; raw are the bytes on the socket, bytes what the client
\* sends as its request (inside TLS, if it uses TLS)
webSocketsCheckRaw(c, raw, conn, bytes) ==
  IF Len(raw) < 4 THEN
    IF conn.readEnd = "ETIMEDOUT" THEN [c EXCEPT !.ret = "TRUE"]
    ELSE [c EXCEPT !.ret = "FALSE"]
  ELSE webSocketsCheckPeeked(c, SubSeq(raw, 1, 4), conn, bytes)

RECURSIVE Flatten(_)
\* the lines of a request, one after the other
Flatten(lines) ==
  IF lines = <<>> THEN <<>> ELSE Head(lines) \o Flatten(Tail(lines))

webSocketsCheck(c, conn) ==
  webSocketsCheckRaw(c,
                     IF conn.tls = "no" THEN Flatten(conn.lines)
                     ELSE ClientHello,
                     conn, Flatten(conn.lines))

-----------------------------------------------------------------------------
(* The clients of the handshake *)

L_GET ==
  <<"G", "E", "T", " ", "/", " ", "H", "T", "T", "P", "/", "1", ".", "1",
    "\r", "\n">>
L_GET_SHORT ==
  <<"G", "E", "T", " ", "/", "\r", "\n">>
L_POST ==
  <<"P", "O", "S", "T", " ", "/", " ", "H", "T", "T", "P", "/", "1", ".",
    "1", "\r", "\n">>
L_HOST ==
  <<"H", "o", "s", "t", ":", " ", "h", "\r", "\n">>
L_ORIGIN ==
  <<"O", "r", "i", "g", "i", "n", ":", " ", "o", "\r", "\n">>
L_SEC_ORIGIN ==
  <<"S", "e", "c", "-", "W", "e", "b", "S", "o", "c", "k", "e", "t", "-",
    "O", "r", "i", "g", "i", "n", ":", " ", "o", "\r", "\n">>
L_KEY ==
  <<"S", "e", "c", "-", "W", "e", "b", "S", "o", "c", "k", "e", "t", "-",
    "K", "e", "y", ":", " ", "k", "\r", "\n">>
L_VERSION_13 ==
  <<"S", "e", "c", "-", "W", "e", "b", "S", "o", "c", "k", "e", "t", "-",
    "V", "e", "r", "s", "i", "o", "n", ":", " ", "1", "3", "\r", "\n">>
L_VERSION_0 ==
  <<"S", "e", "c", "-", "W", "e", "b", "S", "o", "c", "k", "e", "t", "-",
    "V", "e", "r", "s", "i", "o", "n", ":", " ", "0", "\r", "\n">>
L_VERSION_256 ==
  <<"S", "e", "c", "-", "W", "e", "b", "S", "o", "c", "k", "e", "t", "-",
    "V", "e", "r", "s", "i", "o", "n", ":", " ", "2", "5", "6", "\r", "\n">>
L_VERSION_CUT ==
  <<"S", "e", "c", "-", "W", "e", "b", "S", "o", "c", "k", "e", "t", "-",
    "V", "e", "r", "s", "i", "o", "n", ":", " ", "1", "3">>
L_PROTOCOL_BINARY ==
  <<"S", "e", "c", "-", "W", "e", "b", "S", "o", "c", "k", "e", "t", "-",
    "P", "r", "o", "t", "o", "c", "o", "l", ":", " ", "b", "i", "n", "a",
    "r", "y", "\r", "\n">>
L_PROTOCOL_BASE64 ==
  <<"S", "e", "c", "-", "W", "e", "b", "S", "o", "c", "k", "e", "t", "-",
    "P", "r", "o", "t", "o", "c", "o", "l", ":", " ", "b", "a", "s", "e",
    "6", "4", "\r", "\n">>
L_PROTOCOL_BOTH ==
  <<"S", "e", "c", "-", "W", "e", "b", "S", "o", "c", "k", "e", "t", "-",
    "P", "r", "o", "t", "o", "c", "o", "l", ":", " ", "b", "a", "s", "e",
    "6", "4", ",", " ", "b", "i", "n", "a", "r", "y", "\r", "\n">>
L_PROTOCOL_CHAT ==
  <<"S", "e", "c", "-", "W", "e", "b", "S", "o", "c", "k", "e", "t", "-",
    "P", "r", "o", "t", "o", "c", "o", "l", ":", " ", "c", "h", "a", "t",
    "\r", "\n">>
L_KEY1 ==
  <<"S", "e", "c", "-", "W", "e", "b", "S", "o", "c", "k", "e", "t", "-",
    "K", "e", "y", "1", ":", " ", "1", "\r", "\n">>
L_KEY2 ==
  <<"S", "e", "c", "-", "W", "e", "b", "S", "o", "c", "k", "e", "t", "-",
    "K", "e", "y", "2", ":", " ", "2", "\r", "\n">>
L_KEY3 ==
  <<"1", "2", "3", "4", "5", "6", "7", "8">>
L_FLASH ==
  <<"<", "p", "o", "l", "i", "c", "y", "-", "f", "i", "l", "e", "-", "r",
    "e", "q", "u", "e", "s", "t", "/", ">", NUL>>

\* a header line without an end, longer than the handshake buffer
L_LONG == <<"X", ":", " ">> \o [i \in 1..WEBSOCKETS_MAX_HANDSHAKE_LEN |-> "a"]

\* the request line and the headers the handshake asks for
Complete == <<L_GET, L_HOST, L_ORIGIN, L_KEY, L_VERSION_13>>

\* requests with all that is asked for, by the subprotocols they offer
Offers ==
  {Complete \o <<CRLF>>,
   Complete \o <<L_PROTOCOL_BINARY, CRLF>>,
   Complete \o <<L_PROTOCOL_BASE64, CRLF>>,
   Complete \o <<L_PROTOCOL_BOTH, CRLF>>,
   Complete \o <<L_PROTOCOL_CHAT, CRLF>>,
   <<L_GET, L_HOST, L_SEC_ORIGIN, L_KEY, L_VERSION_13, CRLF>>,
   Complete \o <<L_KEY1, L_KEY2, CRLF, L_KEY3>>}

\* requests with something missing or wrong
Defective ==
  {<<L_GET, L_ORIGIN, L_KEY, L_VERSION_13, CRLF>>,
   <<L_GET, L_HOST, L_KEY, L_VERSION_13, CRLF>>,
   <<L_GET, L_HOST, L_ORIGIN, L_KEY, CRLF>>,
   <<L_GET, L_HOST, L_ORIGIN, L_KEY, L_VERSION_0, CRLF>>,
   <<L_GET, L_HOST, L_ORIGIN, L_KEY, L_VERSION_256, CRLF>>,
   <<L_GET_SHORT, L_HOST, L_ORIGIN, L_KEY, L_VERSION_13, CRLF>>,
   <<L_POST, L_HOST, L_ORIGIN, L_KEY, L_VERSION_13, CRLF>>,
   <<L_GET, L_HOST, L_ORIGIN, L_VERSION_13, CRLF>>,
   <<<<"G", "E">>>>,
   <<>>}

\* requests that do not end with a blank line: the client stops after the
\* headers or in the middle of one, or sends a header without an end
Unended ==
  {Complete,
   <<L_GET, L_HOST, L_ORIGIN, L_KEY, L_VERSION_CUT>>,
   Complete \o <<L_PROTOCOL_BINARY, L_LONG>>,
   <<L_GET, L_HOST, L_LONG>>}

Requests == Offers \cup Defective \cup Unended \cup {<<L_FLASH>>}

\* a connection: the request, whether it comes in TLS and how that goes,
\* how the reads end once the client's bytes are used up, whether the write
\* succeeds, and what the undefined operations of this run do
Conns ==
  [lines : Requests,
   tls : {"no", "ok", "initfail", "peekfail"},
   readEnd : {"ETIMEDOUT", "EOF", "EIO"},
   writeOK : BOOLEAN,
   strlenNull : {"crash", "returns"},
   after : AfterLiteral]

\* a client has connected and webSocketsCheck has not yet run
NewClient ==
  [wsctx |-> FALSE, base64 |-> FALSE, sslctx |-> FALSE, ret |-> "none",
   written |-> <<>>, wspath |-> <<>>, conn |-> <<>>]

\* cl->wsctx of a client without a session
NoSession == [state |-> "none"]

InitCheck ==
  /\ dec = NoSession
  /\ errno = ""
  /\ stream = <<>>
  /\ closed = FALSE
  /\ sent = <<>>
  /\ wire = <<>>
  /\ out = <<>>
  /\ call = NoCall
  /\ fails = 0
  /\ decB = NoSession
  /\ streamB = <<>>
  /\ outB = <<>>
  /\ retB = -1
  /\ cl = NewClient

\* webSocketsCheck(cl) on a new connection
Check(conn) ==
  /\ cl.ret = "none"
  /\ cl' = [webSocketsCheck(cl, conn) EXCEPT !.conn = conn]
  /\ dec' = IF cl'.wsctx THEN NewDecodingCtx ELSE dec
  /\ UNCHANGED <<errno, stream, closed, sent, wire, out, call, fails,
                 decB, streamB, outB, retB>>

NextCheck == \E conn \in Conns : Check(conn)

SpecCheck == InitCheck /\ [][NextCheck]_vars

-----------------------------------------------------------------------------
(* Properties of the handshake *)

\* webSocketsCheck has run
Checked == cl.ret # "none"

\* what the client sent as its request
Request == Flatten(cl.conn.lines)

\* line is a header line "name: value\r\n" with a value
HeaderLine(line, name) ==
  /\ Len(line) > Len(name) + 2
  /\ SubSeq(line, Len(line) - 1, Len(line)) = CRLF
  /\ strncasecmp0(name, line, Len(name))

\* the client sent a header line with this name
Sent(name) ==
  \E i \in 1..Len(cl.conn.lines) : HeaderLine(cl.conn.lines[i], name)

\* the client sent a sec-websocket-version line with a value other than 0
SentVersion ==
  \E i \in 1..Len(cl.conn.lines) :
    /\ HeaderLine(cl.conn.lines[i], VERSION_)
    /\ cl.conn.lines[i] # L_VERSION_0

\* the client sent a request line with a path
SentPath ==
  \E i \in 1..Len(cl.conn.lines) :
    /\ Len(cl.conn.lines[i]) >= 16
    /\ SubSeq(cl.conn.lines[i], 1, 4) = GET_

\* the client sent a Sec-WebSocket-Protocol line whose value contains token
Offered(token) ==
  \E i \in 1..Len(cl.conn.lines) :
    /\ HeaderLine(cl.conn.lines[i], PROTOCOL_)
    /\ strstr(SubSeq(cl.conn.lines[i], Len(PROTOCOL_) + 1,
                     Len(cl.conn.lines[i]) - 2), token)

\* data is a 101 response
Is101(data) ==
  Len(data) >= 12
    /\ SubSeq(data, 1, 12)
         = <<"H", "T", "T", "P", "/", "1", ".", "1", " ", "1", "0", "1">>

\* a 101 response was handed to rfbWriteExact
Wrote101 == \E i \in 1..Len(cl.written) : Is101(cl.written[i].data)

\* a 101 response was written
Wrote101OK ==
  \E i \in 1..Len(cl.written) :
    Is101(cl.written[i].data) /\ cl.written[i].ok

\* the reads ended with an error before a blank line was read and before
\* the buffer was full
ReadError ==
  /\ cl.conn.readEnd # "ETIMEDOUT"
  /\ Len(Request) < WEBSOCKETS_MAX_HANDSHAKE_LEN - 1
  /\ \A i \in 1..Len(cl.conn.lines) : cl.conn.lines[i] # CRLF

\* C14: a session exists after webSocketsCheck only if the request began
\* with "GET ", had a sec-websocket-version other than 0, a path, a host and
\* an origin or sec-websocket-origin, and the 101 response was written; its
\* decoder then waits for a header with no message open. When the call
\* fails, a read or the write fails, a header is missing, the client is a
\* Flash client or the request is no GET, there is no session.
C14_SessionOnlyAfter ==
  Checked
    => /\ cl.wsctx
            => /\ cl.ret = "TRUE"
               /\ Len(Request) >= 4 /\ SubSeq(Request, 1, 4) = GET_
               /\ SentVersion /\ SentPath /\ Sent(HOST_)
               /\ Sent(ORIGIN_) \/ Sent(SEC_ORIGIN_)
               /\ Wrote101OK
               /\ dec.state = WS_STATE_DECODING_HEADER_PENDING
               /\ dec.continuation_opcode = WS_OPCODE_INVALID
       /\ (\/ cl.ret # "TRUE"
           \/ ReadError
           \/ ~cl.conn.writeOK
           \/ cl.conn.tls = "initfail")
            => ~cl.wsctx /\ dec = NoSession

\* a session over TLS for a client that sent sec-websocket-origin
C14_Witness ==
  /\ Checked
  /\ cl.wsctx
  /\ cl.sslctx
  /\ cl.conn.lines = <<L_GET, L_HOST, L_SEC_ORIGIN, L_KEY, L_VERSION_13, CRLF>>
  /\ dec = NewDecodingCtx

\* the request fills the handshake buffer and has no blank line in it
Overflow ==
  /\ Len(Request) >= WEBSOCKETS_MAX_HANDSHAKE_LEN - 1
  /\ \A i \in 1..Len(cl.conn.lines) : cl.conn.lines[i] # CRLF

\* C15: when the request fills the handshake buffer without a blank line,
\* no 101 response is written and there is no session.
C15_OverflowRejected ==
  (Checked /\ Overflow) => (~Wrote101OK /\ ~cl.wsctx)

\* the response written in a handshake that succeeded
Response ==
  cl.written[CHOOSE i \in 1..Len(cl.written) : Is101(cl.written[i].data)].data

\* "\r\nSec-WebSocket-Protocol: " followed by protocol and the end of line
ProtocolHeader(protocol) ==
  SERVER_HANDSHAKE_HYBI_Protocol \o protocol \o CRLF

\* C16: in a handshake that succeeds, a client that offers "binary" gets
\* base64 = FALSE and Sec-WebSocket-Protocol: binary, also when it offers
\* "base64" as well; one that offers "base64" and not "binary" gets
\* base64 = TRUE and Sec-WebSocket-Protocol: base64; any other gets
\* base64 = TRUE and a response without a Sec-WebSocket-Protocol header.
C16_Subprotocol ==
  (Checked /\ cl.wsctx)
    => IF Offered(BINARY_)
       THEN ~cl.base64 /\ strstr(Response, ProtocolHeader(BINARY_))
       ELSE IF Offered(BASE64_)
       THEN cl.base64 /\ strstr(Response, ProtocolHeader(BASE64_))
       ELSE cl.base64 /\ ~strstr(Response, SERVER_HANDSHAKE_HYBI_Protocol)

\* a client that offered base64 and binary got binary
C16_Witness ==
  /\ Checked
  /\ cl.wsctx
  /\ ~cl.base64
  /\ cl.conn.lines = Complete \o <<L_PROTOCOL_BOTH, CRLF>>
  /\ strstr(Response, ProtocolHeader(BINARY_))

\* C17: when the first byte of a connection is '<', one write is made, of
\* SZ_FLASH_POLICY_RESPONSE = 93 bytes that are the bytes of the fixed
\* policy, and the connection is rejected whether or not the write
\* succeeds: no header is parsed, no 101 response is written, there is no
\* session.
C17_FlashPolicy ==
  (Checked /\ cl.conn.tls = "no" /\ Len(Request) >= 4 /\ Request[1] = "<")
    => /\ cl.ret = "FALSE"
       /\ ~cl.wsctx
       /\ cl.wspath = <<>>
       /\ ~Wrote101
       /\ Len(cl.written) = 1
       /\ cl.written[1].ok = cl.conn.writeOK
       /\ Len(cl.written[1].data) = SZ_FLASH_POLICY_RESPONSE
       /\ \A i \in 1..SZ_FLASH_POLICY_RESPONSE :
            /\ i <= Len(FLASH_POLICY_RESPONSE) - 1
            /\ cl.written[1].data[i] = FLASH_POLICY_RESPONSE[i]

-----------------------------------------------------------------------------
(* websockets.c: webSocketsHasDataInBuffer *)

\* pending is what rfbssl_pending(cl) returns
webSocketsHasDataInBuffer(c, wsctx, pending) ==
  IF c.wsctx /\ wsctx.readlen # 0 THEN TRUE
  ELSE c.sslctx /\ pending > 0

\* numbers of bytes the TLS layer can have pending
Pending == {0, 1}

\* C18: in every state of the decoder between two calls, with or without
\* TLS and whatever the TLS layer has pending, webSocketsHasDataInBuffer
\* returns TRUE exactly when readlen > 0 or bytes are pending.
C18_HasData ==
  \A ssl \in BOOLEAN :
    \A pending \in Pending :
      (ssl \/ pending = 0)
        => (webSocketsHasDataInBuffer([cl EXCEPT !.sslctx = ssl], dec, pending)
              <=> (dec.readlen > 0 \/ pending > 0))

\* C19: between two calls, whatever frames were sent and however the lower
\* reads split them, nReadPayload is at most header.payloadLen, so that
\* remaining() is no negative number.
C19_ReadWithinPayload == dec.nReadPayload <= dec.header.payloadLen

\* the decoded bytes of d that the caller has not yet been given
Undelivered(d) ==
  IF d.readlen > 0 THEN Slice(d.codeBufDecode, d.readPos, d.readlen) ELSE <<>>

\* C20: between two calls the state is DATA_AVAILABLE exactly when
\* readlen > 0; a call entered with decoded bytes waiting makes no lower
\* read and hands the caller the first of these bytes, and the rest is still
\* waiting, unchanged, when it returns.
C20_AvailableIffReadlen ==
  [][/\ dec.state = WS_STATE_DECODING_DATA_AVAILABLE <=> dec.readlen > 0
     /\ dec'.state = WS_STATE_DECODING_DATA_AVAILABLE <=> dec'.readlen > 0
     /\ (dec.readlen > 0 /\ wire' = wire)
          => /\ call'.reads = <<NoRead, NoRead>>
             /\ call'.n > 0
             /\ out' \o Undelivered(dec') = out \o Undelivered(dec)]_vars

\* decoded bytes were picked up by a second call and some are still waiting
C20_Witness ==
  /\ dec.state = WS_STATE_DECODING_DATA_AVAILABLE
  /\ dec.readlen > 0
  /\ call.reads = <<NoRead, NoRead>>
  /\ call.n > 0
  /\ fails = 0
  /\ IsPrefix(out, Expected(sent))

\* C21: between two calls carrylen is between 0 and 3; it is 0 while a header
\* is awaited, and where it is not 0 the decoder is inside a frame of whose
\* payload bytes are still to be read.
C21_CarryLen ==
  /\ dec.carrylen >= 0
  /\ dec.carrylen <= CarryBufSize
  /\ dec.state = WS_STATE_DECODING_HEADER_PENDING => dec.carrylen = 0
  /\ dec.carrylen # 0 =>
       /\ dec.state \in {WS_STATE_DECODING_DATA_NEEDED,
                         WS_STATE_DECODING_DATA_AVAILABLE,
                         WS_STATE_DECODING_CLOSE_REASON_PENDING}
       /\ dec.nReadPayload < dec.header.payloadLen

\* writePos points into codeBufDecode
WritePosInside(wsctx) ==
  wsctx.writePos >= 0 /\ wsctx.writePos < Len(wsctx.codeBufDecode)

\* readAndDecode entered with the context w: the carried bytes are copied
\* back inside codeBufDecode, and the lower read, if one is made, is told to
\* store its bytes inside codeBufDecode before its last byte
ReadInside(w) ==
  /\ w.writePos >= 0
  /\ w.writePos + w.carrylen <= Len(w.codeBufDecode)
  /\ readAndDecodeRequest(w) > 0 =>
       w.writePos + w.carrylen + readAndDecodeRequest(w)
         <= Len(w.codeBufDecode) - 1

\* the same for the readAndDecode that follows a readHeader with result h
ReadInsideAfter(h) ==
  h.next = WS_STATE_DECODING_DATA_NEEDED =>
    ReadInside([h.ctx EXCEPT !.state = h.next])

\* whatever its lower reads return, the payload read of the next call stays
\* inside codeBufDecode
NextReadInside ==
  /\ dec.state \in {WS_STATE_DECODING_DATA_NEEDED,
                    WS_STATE_DECODING_CLOSE_REASON_PENDING} => ReadInside(dec)
  /\ dec.state = WS_STATE_DECODING_HEADER_PENDING =>
       \A c1 \in HeaderChoices(dec, stream, closed, TRUE) :
         ReadInsideAfter(readHeader(dec, lowerRead(stream, c1), errno))

\* C22 as stated: when a call has returned, writePos lies within
\* codeBufDecode, and every payload read stores its bytes inside
\* codeBufDecode and leaves its last byte free.
C22_WritePosAlways ==
  call # NoCall => (WritePosInside(dec) /\ NextReadInside)

\* C22: between two calls writePos lies within codeBufDecode unless the
\* decoder awaits a header, when it is NULL and unused; every payload read,
\* whatever the opcode and the length of the frame and after the carried
\* bytes were copied back, stores its bytes inside codeBufDecode and leaves
\* its last byte free.
C22_WritePosInside ==
  /\ dec.state # WS_STATE_DECODING_HEADER_PENDING => WritePosInside(dec)
  /\ dec.state = WS_STATE_DECODING_HEADER_PENDING => dec.writePos = NULL
  /\ NextReadInside

\* in a frame longer than codeBufDecode a payload read has been made, bytes
\* are carried over and the next call reads on
C22_Witness ==
  /\ dec.state = WS_STATE_DECODING_DATA_NEEDED
  /\ dec.header.payloadLen = LongPayload
  /\ dec.carrylen > 0
  /\ call.reads[2] = 1
  /\ readAndDecodeRequest(dec) > 0

\* The frame a call is about: the one whose header the decoder d holds on
\* entry or, when d awaits a header, the one whose first bytes hdr the call
\* looks at.
CurParsed(d, hdr) ==
  d.state # WS_STATE_DECODING_HEADER_PENDING \/ Len(hdr) >= 2

\* its FIN bit
CurFin(d, hdr) ==
  IF d.state = WS_STATE_DECODING_HEADER_PENDING
  THEN hdr[1] \div 128 ELSE d.header.fin

\* its opcode as it is on the wire, for a control frame
CurControlOpcode(d, hdr) ==
  IF d.state = WS_STATE_DECODING_HEADER_PENDING
  THEN hdr[1] % 16 ELSE d.header.opcode

\* it is a PING, PONG or CLOSE frame
CurControl(d, hdr) ==
  CurControlOpcode(d, hdr)
    \in {WS_OPCODE_CLOSE, WS_OPCODE_PING, WS_OPCODE_PONG}

\* it is a data frame
CurData(d, hdr) == (CurControlOpcode(d, hdr) \div 8) % 2 = 0

\* continuation_opcode once the header of the data frame is interpreted: the
\* opcode of a first fragment, the remembered one for a CONT frame
CurContinuation(d, hdr) ==
  IF d.state = WS_STATE_DECODING_HEADER_PENDING
       /\ hdr[1] % 16 # WS_OPCODE_CONTINUATION
  THEN hdr[1] % 16
  ELSE d.continuation_opcode

\* C23: a call that works on a PING, PONG or CLOSE frame with FIN set and
\* does not end in an error leaves continuation_opcode as it was, from the
\* header to the cleanup of the completed frame; the call that completes a
\* data frame with FIN clear leaves continuation_opcode as the header of this
\* frame has set it; the call that completes a data frame with FIN set leaves
\* it INVALID.
C23_ContinuationOpcode ==
  [][wire' = wire =>
       /\ (/\ CurParsed(dec, call'.hdr)
           /\ CurControl(dec, call'.hdr)
           /\ CurFin(dec, call'.hdr) = 1
           /\ call'.endState # WS_STATE_ERR)
            => dec'.continuation_opcode = dec.continuation_opcode
       /\ (/\ call'.endState = WS_STATE_DECODING_FRAME_COMPLETE
           /\ CurData(dec, call'.hdr)
           /\ CurFin(dec, call'.hdr) = 0)
            => dec'.continuation_opcode = CurContinuation(dec, call'.hdr)
       /\ (/\ call'.endState = WS_STATE_DECODING_FRAME_COMPLETE
           /\ CurData(dec, call'.hdr)
           /\ CurFin(dec, call'.hdr) = 1)
            => dec'.continuation_opcode = WS_OPCODE_INVALID]_vars

\* a PING frame between two fragments was received whole and cleaned up, and
\* the opcode of the message is still remembered
C23_Witness ==
  /\ call.endState = WS_STATE_DECODING_FRAME_COMPLETE
  /\ Len(call.hdr) >= 2
  /\ call.hdr[1] = 128 + WS_OPCODE_PING
  /\ dec.continuation_opcode = WS_OPCODE_BINARY_FRAME
  /\ dec.state = WS_STATE_DECODING_HEADER_PENDING
  /\ fails = 0

\* C24: a call entered in DATA_AVAILABLE makes no lower read, copies
\* n = min(readlen, len) > 0 bytes, returns n and leaves errno alone; readlen
\* is n less afterwards, and the decoder is in DATA_AVAILABLE if bytes are
\* left, in DATA_NEEDED if none are left and payload is still to be read,
\* and otherwise has completed the frame and awaits a header.
C24_PickUp ==
  [][(wire' = wire /\ dec.state = WS_STATE_DECODING_DATA_AVAILABLE) =>
       /\ call'.reads = <<NoRead, NoRead>>
       /\ \E len \in DstLens : call'.result = Min(dec.readlen, len)
       /\ call'.result > 0
       /\ call'.n = call'.result
       /\ errno' = errno
       /\ dec'.readlen = dec.readlen - call'.result
       /\ dec'.readlen > 0 =>
            dec'.state = WS_STATE_DECODING_DATA_AVAILABLE
       /\ (dec'.readlen = 0 /\ dec.nReadPayload < dec.header.payloadLen) =>
            dec'.state = WS_STATE_DECODING_DATA_NEEDED
       /\ (dec'.readlen = 0 /\ dec.nReadPayload >= dec.header.payloadLen) =>
            /\ call'.endState = WS_STATE_DECODING_FRAME_COMPLETE
            /\ dec'.state = WS_STATE_DECODING_HEADER_PENDING
            /\ dec'.header.nDone = 0]_vars

\* a lower read of the last call returned -1 or 0
ReadFailed(c) ==
  \E i \in 1..2 : c.reads[i] \in {ReadEOF, ReadEAGAIN, ReadETIMEDOUT}

\* the last call ended in an error that is no mere incomplete frame
HardError == ReadFailed(call) \/ (call.result = -1 /\ errno = "EPROTO")

\* C25: after a call in which a lower read returned -1 or 0, or which ended
\* with EPROTO, the decoder is as new: it awaits a header of which it holds
\* no byte, nReadPayload, readlen and carrylen are 0 and no fragmented
\* message is open; the header the next call looks at is made of the next
\* bytes of the stream and nothing else.
C25_ErrorResets ==
  HardError =>
    /\ call.endState = WS_STATE_ERR
    /\ dec.state = WS_STATE_DECODING_HEADER_PENDING
    /\ dec.header.nDone = 0
    /\ dec.nReadPayload = 0
    /\ dec.readlen = 0
    /\ dec.carrylen = 0
    /\ dec.continuation_opcode = WS_OPCODE_INVALID
    /\ dec = wsDecodeCleanupComplete(dec)
    /\ \A c1 \in 1..Min(Len(stream), WSHLENMAX) :
         HeaderSeen(dec, stream, c1) = SubSeq(stream, 1, c1)

\* a payload read failed while a fragmented message was open, and bytes of a
\* later frame are still to be read
C25_Witness ==
  /\ call.reads[2] \in {ReadEAGAIN, ReadETIMEDOUT}
  /\ call.cont = WS_OPCODE_BINARY_FRAME
  /\ dec.continuation_opcode = WS_OPCODE_INVALID
  /\ stream # <<>>

\* C26: between two calls the state is HEADER_PENDING, DATA_NEEDED,
\* DATA_AVAILABLE or CLOSE_REASON_PENDING, never FRAME_COMPLETE or ERR, so
\* that no call is entered in a state it does not know; no call ends in a
\* state other than the six of the decoder, and errno is never EIO.
C26_NoEIO ==
  /\ dec.state \in {WS_STATE_DECODING_HEADER_PENDING,
                    WS_STATE_DECODING_DATA_NEEDED,
                    WS_STATE_DECODING_DATA_AVAILABLE,
                    WS_STATE_DECODING_CLOSE_REASON_PENDING}
  /\ call # NoCall =>
       call.endState \in {WS_STATE_DECODING_HEADER_PENDING,
                          WS_STATE_DECODING_DATA_NEEDED,
                          WS_STATE_DECODING_DATA_AVAILABLE,
                          WS_STATE_DECODING_CLOSE_REASON_PENDING,
                          WS_STATE_DECODING_FRAME_COMPLETE,
                          WS_STATE_ERR}
  /\ call.endState = WS_STATE_DECODING_FRAME_COMPLETE =>
       dec.state = WS_STATE_DECODING_HEADER_PENDING
  /\ call.endState = WS_STATE_ERR =>
       dec.state = WS_STATE_DECODING_HEADER_PENDING
  /\ errno # "EIO"

\* a call has completed a PING frame: it ended in FRAME_COMPLETE with
\* -1/EAGAIN, and the decoder awaits a header
C26_Witness ==
  /\ call.endState = WS_STATE_DECODING_FRAME_COMPLETE
  /\ call.result = -1
  /\ errno = "EAGAIN"
  /\ sent # <<>>
  /\ sent[Len(sent)].opcode = WS_OPCODE_PING
  /\ dec.state = WS_STATE_DECODING_HEADER_PENDING

RECURSIVE FrameEnd(_, _)
\* number of bytes on the wire up to the end of the j-th frame of s
FrameEnd(s, j) ==
  IF j = 0 THEN 0 ELSE FrameEnd(s, j - 1) + Len(FrameBytes(s[j], j))

\* a masked data frame without payload that is legal where it stands in s
EmptyData(s, j) ==
  /\ s[j].plen = 0
  /\ s[j].masked
  /\ s[j].enc = "short"
  /\ WellFormedData(SubSeq(s, 1, j))

\* the call of this step has read bytes, and none of its lower reads failed
\* or met the end of the stream
ReadOn ==
  /\ wire' = wire
  /\ Len(stream') < Len(stream)
  /\ ~ReadFailed(call')

\* the call of this step reads the header of the j-th frame from its first
\* byte not yet read to its last
ReadsHeaderOf(j) ==
  /\ ReadOn
  /\ dec.state = WS_STATE_DECODING_HEADER_PENDING
  /\ Len(wire) - Len(stream) - dec.header.nDone = FrameEnd(sent, j - 1)
  /\ Len(wire) - Len(stream') >= FrameEnd(sent, j)

\* the call of this step works on a PING or PONG frame with FIN set
OnPingPong ==
  /\ ReadOn
  /\ CurParsed(dec, call'.hdr)
  /\ CurControlOpcode(dec, call'.hdr) \in {WS_OPCODE_PING, WS_OPCODE_PONG}
  /\ CurFin(dec, call'.hdr) = 1
  /\ call'.endState # WS_STATE_ERR

\* the call of this step reads payload of a BINARY frame, has less than four
\* bytes to unmask, and more payload is to come
ShortChunk ==
  /\ ReadOn
  /\ dec.state = WS_STATE_DECODING_DATA_NEEDED
  /\ dec.header.opcode = WS_OPCODE_BINARY_FRAME
  /\ dec.carrylen + (Len(stream) - Len(stream')) < 4
  /\ dec.nReadPayload + (Len(stream) - Len(stream')) < dec.header.payloadLen

\* C27: a call that reads the whole of a data frame without payload, works
\* on a PING or PONG frame, or reads less than a mask word of a frame still
\* incomplete, copies nothing and returns -1 with errno EAGAIN; after the
\* call that has read a data frame without payload and with FIN set, the
\* decoder has read this frame and nothing more and awaits a header.
C27_NothingToDeliver ==
  [][/\ \A j \in 1..Len(sent) :
          (ReadsHeaderOf(j) /\ EmptyData(sent, j)) =>
            /\ call'.result = -1
            /\ errno' = "EAGAIN"
            /\ call'.n = 0
            /\ sent[j].fin = 1 =>
                 /\ dec'.state = WS_STATE_DECODING_HEADER_PENDING
                 /\ dec'.header.nDone = 0
                 /\ Len(wire) - Len(stream') = FrameEnd(sent, j)
     /\ (OnPingPong \/ ShortChunk) =>
          /\ call'.result = -1
          /\ errno' = "EAGAIN"
          /\ call'.n = 0]_vars

====
